---- MODULE Spec2Model ----
(***************************************************************************)
(* VBZBreaker: the Morse audio drill engine.                               *)
(*                                                                         *)
(* The model follows src/vbz_session.py (SessionRunner, AudioThread),      *)
(* src/vbz_drill.py (build_pair_sequences, build_context_lines),           *)
(* src/vbz_synth.py (string_audio and its timing) and src/vbz_utils.py     *)
(* (MORSE_MAP, dit_seconds).  Three threads take part in a session: the    *)
(* orchestrator (SessionRunner.run), the delivery thread (AudioThread.run) *)
(* and the controlling thread, which calls SessionRunner.stop().  Every    *)
(* read or write of shared state (stop_flag, q_frames, the log, the status *)
(* callback) is one step; purely local computation is folded into the      *)
(* step that precedes it.                                                  *)
(*                                                                         *)
(* Text is a sequence of one-character strings.  An audio buffer is        *)
(* represented by its identity and its length in frames; a chunk           *)
(* audio[i:i+AUDIO_CHUNK_SIZE] by the buffer and the slice bounds.         *)
(* Jitter is off in this specification (jitter_pct = 0), so durations are  *)
(* the base durations.                                                     *)
(***************************************************************************)
EXTENDS Integers, Sequences, FiniteSets, TLC

VARIABLES
    spec,                \* the DrillSpec handed to SessionRunner.__init__
    runtime,             \* np / sd imported (TRUE) or set to None (FALSE)
    stop_flag,           \* SessionRunner.stop_flag (threading.Event)
    q_frames,            \* SessionRunner.q_frames (queue.Queue, maxsize 8)
    sent_lines,          \* SessionRunner.sent_lines
    log,                 \* rows written to the session CSV file
    ui,                  \* strings passed to update_ui_cb, in order
    pc_r,                \* position of SessionRunner.run
    pc_a,                \* position of AudioThread.run
    pc_c,                \* position of the controlling thread in stop()
    loc,                 \* locals of the running mode loop
    audio,               \* _enqueue_audio: the buffer being chunked
    frame,               \* AudioThread.run: the dequeued frame
    completed_naturally, \* SessionRunner.run: the mode loop's result
    deadline_passed,     \* time.time() >= t_end
    written,             \* chunks passed to stream.write, in order
    enqueued,            \* chunks put into q_frames by _enqueue_audio, in order
    gen,                 \* lengths of the buffers handed to _enqueue_audio
    hist,                \* bookkeeping: calls of stop(), errors, counters
    lock,                \* holder of SessionRunner._sent_lines_lock
    sent_copy,           \* App.stop_session: its copy of sent_lines
    call                 \* one call of a helper function: its arguments and result

vars == <<spec, runtime, stop_flag, q_frames, sent_lines, log, ui, pc_r, pc_a,
          pc_c, loc, audio, frame, completed_naturally, deadline_passed,
          written, enqueued, gen, hist, lock, sent_copy, call>>

----------------------------------------------------------------------------
(* Program constants *)

AUDIO_CHUNK_SIZE == 4096
AUDIO_QUEUE_MAX_SIZE == 8
CONTRAST_PASSES == 4
CATALOG_LINES == 6
BASE_TOTAL_REPS == 16
EQUAL_REPS == 8

(* Bounds of the model *)

\* Frames per second of the synthesizer, scaled down from
\* DEFAULT_SAMPLE_RATE so that a buffer is one or two chunks long.
SampleRate == 480
\* How many times stop() may be called in one behaviour.
MaxStops == 2
\* Iterations a deadline-bounded loop may start before time must pass.
MaxReanchorIters == 2
MaxOverspeedLines == 7
\* The largest speed, in words per minute, of the reanchor sessions whose
\* repetition counts are examined.
MaxWpm == 32

Max(a, b) == IF a >= b THEN a ELSE b
Min(a, b) == IF a <= b THEN a ELSE b


----------------------------------------------------------------------------
(* Text helpers: str.upper() on one character, and string repetition *)

LowerAlpha == <<"a", "b", "c", "d", "e", "f", "g", "h", "i", "j", "k", "l", "m", "n", "o", "p", "q", "r", "s", "t", "u", "v", "w", "x", "y", "z">>
UpperAlpha == <<"A", "B", "C", "D", "E", "F", "G", "H", "I", "J", "K", "L", "M", "N", "O", "P", "Q", "R", "S", "T", "U", "V", "W", "X", "Y", "Z">>

\* the position of each lower-case letter in the alphabet
LowerIndex == [c \in {LowerAlpha[k] : k \in 1..Len(LowerAlpha)} |->
                 CHOOSE k \in 1..Len(LowerAlpha) : LowerAlpha[k] = c]

Upper(c) == IF c \in DOMAIN LowerIndex THEN UpperAlpha[LowerIndex[c]] ELSE c

RECURSIVE Repeat(_, _)
Repeat(s, n) == IF n <= 0 THEN <<>> ELSE s \o Repeat(s, n - 1)

\* ''.join / '  '.join of a list of texts
RECURSIVE Join(_, _)
Join(sep, parts) ==
    IF Len(parts) = 0 THEN <<>>
    ELSE IF Len(parts) = 1 THEN parts[1]
    ELSE parts[1] \o sep \o Join(sep, Tail(parts))

Take(s, n) == SubSeq(s, 1, Min(n, Len(s)))

----------------------------------------------------------------------------
(* vbz_utils.py *)

MORSE_MAP ==
    ("A" :> <<".", "-">>) @@ ("B" :> <<"-", ".", ".", ".">>)
    @@ ("C" :> <<"-", ".", "-", ".">>) @@ ("D" :> <<"-", ".", ".">>)
    @@ ("E" :> <<".">>) @@ ("F" :> <<".", ".", "-", ".">>)
    @@ ("G" :> <<"-", "-", ".">>) @@ ("H" :> <<".", ".", ".", ".">>)
    @@ ("I" :> <<".", ".">>) @@ ("J" :> <<".", "-", "-", "-">>)
    @@ ("K" :> <<"-", ".", "-">>) @@ ("L" :> <<".", "-", ".", ".">>)
    @@ ("M" :> <<"-", "-">>) @@ ("N" :> <<"-", ".">>)
    @@ ("O" :> <<"-", "-", "-">>) @@ ("P" :> <<".", "-", "-", ".">>)
    @@ ("Q" :> <<"-", "-", ".", "-">>) @@ ("R" :> <<".", "-", ".">>)
    @@ ("S" :> <<".", ".", ".">>) @@ ("T" :> <<"-">>)
    @@ ("U" :> <<".", ".", "-">>) @@ ("V" :> <<".", ".", ".", "-">>)
    @@ ("W" :> <<".", "-", "-">>) @@ ("X" :> <<"-", ".", ".", "-">>)
    @@ ("Y" :> <<"-", ".", "-", "-">>) @@ ("Z" :> <<"-", "-", ".", ".">>)
    @@ ("0" :> <<"-", "-", "-", "-", "-">>) @@ ("1" :> <<".", "-", "-", "-", "-">>)
    @@ ("2" :> <<".", ".", "-", "-", "-">>) @@ ("3" :> <<".", ".", ".", "-", "-">>)
    @@ ("4" :> <<".", ".", ".", ".", "-">>) @@ ("5" :> <<".", ".", ".", ".", ".">>)
    @@ ("6" :> <<"-", ".", ".", ".", ".">>) @@ ("7" :> <<"-", "-", ".", ".", ".">>)
    @@ ("8" :> <<"-", "-", "-", ".", ".">>) @@ ("9" :> <<"-", "-", "-", "-", ".">>)

Modes == {"reanchor", "contrast", "context", "overspeed"}

\* The DrillSpec values sessions are started with.  pair is what the caller
\* hands over (the session upper-cases it again); timing_balance is in
\* percent.
DrillSpecs ==
    [mode : Modes, pair : {<<"h", "5">>}, wpm : {25}, low_wpm : {12},
     high_wpm : {36}, overspeed_wpm : {30}, timing_balance : {100}]

\* the speeds the sessions synthesize at
Speeds ==
    UNION {{sp.wpm, sp.low_wpm, sp.high_wpm, sp.overspeed_wpm} : sp \in DrillSpecs}

\* dit_seconds(wpm) * sample_rate * k, truncated as int() does in _tone and
\* _silence, and floored to one frame: max(1, int(seconds * sr)).
\* dit_seconds(wpm) = 1.2 / max(1, wpm).
DitFrames(k, wpm) == Max(1, (k * 12 * SampleRate) \div (10 * Max(1, wpm)))

\* _silence(0.1): the default buffer of string_audio and symbol_audio
DefaultSilenceFrames == Max(1, SampleRate \div 10)


\* the characters re.sub(r'[^A-Z0-9]', '', ...) keeps
Alnum == {UpperAlpha[k] : k \in 1..Len(UpperAlpha)}
         \cup {"0", "1", "2", "3", "4", "5", "6", "7", "8", "9"}

RECURSIVE UpperText(_, _)
UpperText(s, i) == IF i > Len(s) THEN <<>> ELSE <<Upper(s[i])>> \o UpperText(s, i + 1)

IsAlnum(c) == c \in Alnum

\* norm_text: upper-case, then drop everything except A-Z and 0-9
norm_text(s) == SelectSeq(UpperText(s, 1), IsAlnum)

\* the row with a substitution that always costs 1
RECURSIVE LevRowCostOne(_, _, _, _)
LevRowCostOne(prev, ca, b, cur) ==
    LET j == Len(cur)
    IN IF j > Len(b) THEN cur
       ELSE LevRowCostOne(prev, ca, b,
                          Append(cur, Min(Min(prev[j + 1] + 1, cur[j] + 1), prev[j] + 1)))

\* one row of the table: cur starts as [i] and grows to len(b) + 1 entries
RECURSIVE LevRow(_, _, _, _)
LevRow(prev, ca, b, cur) ==
    LET j == Len(cur)
    IN IF j > Len(b) THEN cur
       ELSE LevRow(prev, ca, b,
                   Append(cur, Min(Min(prev[j + 1] + 1, cur[j] + 1),
                                   prev[j] + (IF ca = b[j] THEN 0 ELSE 1))))

RECURSIVE LevRows(_, _, _, _)
LevRows(a, b, i, prev) ==
    IF i > Len(a) THEN prev
    ELSE LET cur == LevRow(prev, a[i], b, <<i>>)
         IN IF Len(cur) = Len(prev) THEN LevRows(a, b, i + 1, cur) ELSE <<>>

\* levenshtein: the longer string runs over the rows
levenshtein(a, b) ==
    LET x == IF Len(a) < Len(b) THEN b ELSE a
        y == IF Len(a) < Len(b) THEN a ELSE b
    IN LevRows(x, y, 1, [j \in 1..(Len(y) + 1) |-> j - 1])[Len(y) + 1]

----------------------------------------------------------------------------
(* vbz_synth.py: lengths of the buffers string_audio returns (jitter off) *)

\* symbol_audio: the tones and the intra-character silences of one symbol;
\* _silence(0.1) when the symbol maps to no units.
RECURSIVE CodeFrames(_, _, _)
CodeFrames(code, k, wpm) ==
    IF k > Len(code) THEN 0
    ELSE DitFrames(IF code[k] = "." THEN 1 ELSE 3, wpm)
         + (IF k # Len(code) THEN DitFrames(1, wpm) ELSE 0)
         + CodeFrames(code, k + 1, wpm)

\* symbol_audio for every symbol of the map at the speeds in use
SymbolFrames ==
    [w \in Speeds |-> [c \in DOMAIN MORSE_MAP |-> CodeFrames(MORSE_MAP[c], 1, w)]]

SymbolAudioFrames(symbol, wpm) ==
    IF Upper(symbol) \in DOMAIN MORSE_MAP
    THEN IF wpm \in Speeds
         THEN SymbolFrames[wpm][Upper(symbol)]
         ELSE CodeFrames(MORSE_MAP[Upper(symbol)], 1, wpm)
    ELSE DefaultSilenceFrames

\* string_audio: the chunks appended for text[i..], summed
RECURSIVE StringChunksFrames(_, _, _)
StringChunksFrames(text, i, wpm) ==
    IF i > Len(text) THEN 0
    ELSE (IF text[i] = " " THEN DitFrames(7, wpm)
          ELSE IF Upper(text[i]) \notin DOMAIN MORSE_MAP THEN 0
          ELSE SymbolAudioFrames(text[i], wpm)
               + (IF i # Len(text) /\ text[i + 1] # " "
                  THEN DitFrames(3, wpm) ELSE 0))
         + StringChunksFrames(text, i + 1, wpm)

\* whether string_audio's chunk list stays empty
NoChunks(text) ==
    \A i \in 1..Len(text) : text[i] # " " /\ Upper(text[i]) \notin DOMAIN MORSE_MAP

StringAudioFrames(text, wpm) ==
    IF NoChunks(text) THEN DefaultSilenceFrames
    ELSE StringChunksFrames(text, 1, wpm)

----------------------------------------------------------------------------
(* vbz_drill.py *)

build_pair_sequences(pair, lines) ==
    LET a == Upper(pair[1])
        b == Upper(pair[2])
        sp == <<" ", " ">>
        base == <<
            <<a, b, a, b, a>> \o sp \o <<b, a, a, b>> \o sp \o <<a, b, b, b, a>>,
            <<b, a, b, a, b>> \o sp \o <<a, b, b, a>> \o sp \o <<b, b, a, a, b>>,
            Repeat(<<a>>, 4) \o sp \o Repeat(<<b>>, 4) \o sp \o <<a, b, a, b, a, b>>,
            <<a, a, b, b>> \o sp \o <<b, a, a, b>> \o sp \o <<a, b, b, a, a>>,
            <<b, b, a, a>> \o sp \o <<a, b, a, a, b>> \o sp \o <<b, a, b, b, a>>,
            <<a, b, a, a, b>> \o sp \o <<b, a, b, a, a>> \o sp \o <<a, a, b, b, a>> >>
    IN Take(base, lines)

\* s[:at] + c + s[at:]
InsertAt(s, at, c) == SubSeq(s, 1, at) \o <<c>> \o SubSeq(s, at + 1, Len(s))

\* The draws build_context_lines takes from `random` for one token: the
\* prefix, the digits, the suffix and the two insert positions.  Two streams
\* A stream of draws stands for the generator; token t of stream r takes
\* draw ((t + r) mod 4).
ContextDraws ==
    << [left |-> <<"W">>, mid |-> <<"7">>, right |-> <<"X", "Y">>, ia |-> 0, ib |-> 5],
       [left |-> <<"A", "B">>, mid |-> <<"0", "4">>, right |-> <<"Q", "R", "S">>, ia |-> 3, ib |-> 3],
       [left |-> <<"N", "U">>, mid |-> <<"1", "2", "3">>, right |-> <<"K", "L">>, ia |-> 7, ib |-> 0],
       [left |-> <<"F">>, mid |-> <<"9">>, right |-> <<"E", "T", "I">>, ia |-> 2, ib |-> 6] >>

\* The number of streams of draws the model considers.
NumStreams == 1

RandomStreams == 0..(NumStreams - 1)

ContextToken(a, b, d) ==
    LET s0 == d.left \o d.mid \o d.right
        s1 == InsertAt(s0, Min(d.ia, Len(s0)), a)
    IN InsertAt(s1, Min(d.ib, Len(s1)), b)

build_context_lines(pair, lines, r) ==
    LET a == Upper(pair[1])
        b == Upper(pair[2])
        tokens == [t \in 1..(lines * 3) |->
                      ContextToken(a, b, ContextDraws[((t + r) % Len(ContextDraws)) + 1])]
        lines_out == [k \in 1..lines |->
                      Join(<<" ", " ">>, SubSeq(tokens, 3 * k - 2, 3 * k))]
    IN Take(lines_out, lines)

----------------------------------------------------------------------------
(* vbz_session.py: pure parts *)

\* Python's round(p / q) for q > 0: to nearest, ties to even
RoundHalfEven(p, q) ==
    LET f == p \div q
        r == p % q
    IN IF 2 * r < q THEN f
       ELSE IF 2 * r > q THEN f + 1
       ELSE IF f % 2 = 0 THEN f ELSE f + 1

\* round(p / q) where p / q is computed in double precision: off a tie the
\* result is the nearest integer; on an exact tie the rounding error of the
\* divisions decides between the two neighbours.
RoundOutcomes(p, q) ==
    IF 2 * (p % q) = q THEN {p \div q, (p \div q) + 1} ELSE {RoundHalfEven(p, q)}

\* a ratio that gives the slower block the more repetitions
RepsRatioInverted(balance_pct, low_wpm, high_wpm) ==
    [num |-> BASE_TOTAL_REPS * (100 * low_wpm + balance_pct * (high_wpm - low_wpm)),
     den |-> 200 * low_wpm + balance_pct * (high_wpm - low_wpm)]

\* _run_reanchor, lines 210-217.  timing_balance is given in percent:
\* char_ratio = 1 + balance * (low_wpm / high_wpm - 1), and
\* total_reps * char_ratio / (1 + char_ratio) = num / den below.
RepsRatio(balance_pct, low_wpm, high_wpm) ==
    [num |-> BASE_TOTAL_REPS * (100 * high_wpm + balance_pct * (low_wpm - high_wpm)),
     den |-> 200 * high_wpm + balance_pct * (low_wpm - high_wpm)]

\* lines 217-218: low_reps = max(1, round(...)); high_reps = max(1, 16 - low_reps)
RepsFrom(rounded) ==
    [low |-> Max(1, rounded), high |-> Max(1, BASE_TOTAL_REPS - Max(1, rounded))]

\* _run_reanchor, lines 198-218, with the quotient rounded exactly
ReanchorReps(balance_pct, low_wpm, high_wpm) ==
    IF balance_pct = 0 THEN [low |-> EQUAL_REPS, high |-> EQUAL_REPS]
    ELSE LET r == RepsRatio(balance_pct, low_wpm, high_wpm)
         IN RepsFrom(RoundHalfEven(r.num, r.den))

\* _run_reanchor, lines 198-218: the counts the double-precision computation
\* can give
ReanchorRepsOutcomes(balance_pct, low_wpm, high_wpm) ==
    IF balance_pct = 0 THEN {[low |-> EQUAL_REPS, high |-> EQUAL_REPS]}
    ELSE LET r == RepsRatio(balance_pct, low_wpm, high_wpm)
         IN {RepsFrom(x) : x \in RoundOutcomes(r.num, r.den)}

\* range(0, len(audio), AUDIO_CHUNK_SIZE): the number of chunks of a buffer
NumChunks(len) == (len + AUDIO_CHUNK_SIZE - 1) \div AUDIO_CHUNK_SIZE

\* audio[i:i+AUDIO_CHUNK_SIZE] of buffer number buf, of len frames
Slice(buf, len, i) == [buf |-> buf, lo |-> i, hi |-> Min(i + AUDIO_CHUNK_SIZE, len)]

\* every chunk of one buffer, in order
ChunksOf(buf, len) == [k \in 1..NumChunks(len) |-> Slice(buf, len, (k - 1) * AUDIO_CHUNK_SIZE)]

\* the sentinel stop() and run() put into the queue
None == [buf |-> 0, lo |-> 0, hi |-> 0]

GapText == <<" ", " ", " ">>

\* a row that carries the pair where the info belongs
EventRowWrongInfo(sp, event, info) ==
    [ts |-> "time", mode |-> sp.mode, pair |-> <<Upper(sp.pair[1]), Upper(sp.pair[2])>>,
     event |-> event, info |-> <<Upper(sp.pair[1]), Upper(sp.pair[2])>>]

HeaderRow == [ts |-> "timestamp", mode |-> "mode", pair |-> "pair",
              event |-> "event", info |-> "info"]

\* a row whose pair column is the pair as typed
EventRowPairAsTyped(sp, event, info) ==
    [ts |-> "time", mode |-> sp.mode, pair |-> sp.pair, event |-> event, info |-> info]

\* a writer that drops the row
WriteNoRow(rows, row) == rows

\* writer.writerow(row): the row is appended to the open log
WriteRow(rows, row) == Append(rows, row)

\* [time.time(), self.spec.mode, a+b, event, info]
EventRow(sp, event, info) ==
    [ts |-> "time", mode |-> sp.mode, pair |-> <<Upper(sp.pair[1]), Upper(sp.pair[2])>>,
     event |-> event, info |-> info]


----------------------------------------------------------------------------
(* The session: initial state *)

NoAudio == [buf |-> 0, len |-> 0, i |-> 0]

\* saw_stop records what the latest test of a deadline-bounded loop read
\* from the stop flag
NoLocals == [lines |-> <<>>, pass |-> 0, idx |-> 0, low_reps |-> 0,
             high_reps |-> 0, ret |-> "none", saw_stop |-> FALSE]

NoSnapshot == [enq |-> 0, written |-> 0, deq |-> 0, log |-> 0, sent |-> 0, ui |-> 0,
               notifying |-> FALSE]

\* the state of a SessionRunner after __init__, whatever its DrillSpec
StartState ==
    /\ runtime \in BOOLEAN
    /\ stop_flag = FALSE
    /\ q_frames = <<>>
    /\ sent_lines = <<>>
    /\ log = <<>>
    /\ ui = <<>>
    /\ pc_r = "idle"
    /\ pc_a = "none"
    /\ pc_c = "ready"
    /\ loc = NoLocals
    /\ audio = NoAudio
    /\ frame = None
    /\ completed_naturally = FALSE
    /\ deadline_passed = FALSE
    /\ written = <<>>
    /\ enqueued = <<>>
    /\ gen = <<>>
    /\ hist = [stops |-> 0, render_error |-> FALSE, deq |-> 0,
               run_sentinel |-> FALSE, snap |-> NoSnapshot]
    /\ lock = "free"
    /\ sent_copy = <<>>

\* no helper call is under way
NoCall == [fn |-> "none", args |-> <<>>, done |-> FALSE, result |-> <<>>]

Init == spec \in DrillSpecs /\ StartState /\ call = NoCall

\* what a step of the orchestrator leaves alone
OtherThreads == UNCHANGED <<pc_a, pc_c, frame, written, hist, spec, runtime,
                            lock, sent_copy, call>>

----------------------------------------------------------------------------
(* SessionRunner._enqueue_audio *)

\* queue.Queue.put succeeds only while the queue holds fewer than maxsize
\* entries; with a timeout it raises Full only when the queue is full.
\* a queue that admits one entry more than maxsize
QueueFullOffByOne(q) == Len(q) > AUDIO_QUEUE_MAX_SIZE

QueueFull(q) == Len(q) >= AUDIO_QUEUE_MAX_SIZE

\* a queue that hands out its newest entry
QueueNewest(q) == q[Len(q)]

\* queue.Queue is first in, first out
QueuePut(q, x) == Append(q, x)
QueueHead(q) == Head(q)
QueueRest(q) == Tail(q)

\* a step one frame short of the chunk size
NextOffsetOverlapping(i) == i + AUDIO_CHUNK_SIZE - 1

\* the for loop's next offset: range(0, len(audio), AUDIO_CHUNK_SIZE)
NextOffset(i) == i + AUDIO_CHUNK_SIZE

\* the call self._enqueue_audio(syn.string_audio(text)), returning to ret
\* with the loop's locals as they are when the call returns
CallEnqueue(text, wpm, ret, locals) ==
    LET len == StringAudioFrames(text, wpm)
    IN /\ audio' = [buf |-> Len(gen) + 1, len |-> len, i |-> 0]
       /\ gen' = Append(gen, len)
       /\ loc' = [locals EXCEPT !.ret = ret]
       /\ pc_r' = IF len > 0 THEN "enq_check" ELSE ret

\* a chunk loop that never looks at the flag
EnqueueNeverSeesStop(flag) == FALSE

\* lines 121 and 125: if self.stop_flag.is_set(): return
EnqueueSeesStop(flag) == flag

\* lines 121 and 125: the check at the head of each chunk and of each retry.
\* For a new chunk the two reads of the flag follow each other with nothing
\* in between, so they are one step.
EnqueueCheckStop ==
    /\ pc_r = "enq_check"
    /\ IF EnqueueSeesStop(stop_flag)
       THEN pc_r' = loc.ret /\ audio' = NoAudio
       ELSE pc_r' = "enq_put" /\ audio' = audio
    /\ UNCHANGED <<stop_flag, q_frames, sent_lines, log, ui, loc,
                   completed_naturally, deadline_passed, enqueued, gen>>
    /\ OtherThreads

\* line 129: the put succeeds, and the for loop moves to the next chunk
EnqueuePut ==
    /\ pc_r = "enq_put"
    /\ ~QueueFull(q_frames)
    /\ q_frames' = QueuePut(q_frames, Slice(audio.buf, audio.len, audio.i))
    /\ enqueued' = Append(enqueued, Slice(audio.buf, audio.len, audio.i))
    /\ IF NextOffset(audio.i) < audio.len
       THEN /\ audio' = [audio EXCEPT !.i = NextOffset(audio.i)]
            /\ pc_r' = "enq_check"
       ELSE /\ audio' = NoAudio
            /\ pc_r' = loc.ret
    /\ UNCHANGED <<stop_flag, sent_lines, log, ui, loc, completed_naturally,
                   deadline_passed, gen>>
    /\ OtherThreads

\* lines 131-132: the put times out on a full queue
EnqueuePutFull ==
    /\ pc_r = "enq_put"
    /\ QueueFull(q_frames)
    /\ pc_r' = "enq_check"
    /\ UNCHANGED <<stop_flag, q_frames, sent_lines, log, ui, loc, audio,
                   completed_naturally, deadline_passed, enqueued, gen>>
    /\ OtherThreads

----------------------------------------------------------------------------
(* SessionRunner.run *)

\* Thread.start(): run() begins
RunStart ==
    /\ pc_r = "idle"
    /\ pc_r' = "begin"
    /\ UNCHANGED <<stop_flag, q_frames, sent_lines, log, ui, loc, audio,
                   completed_naturally, deadline_passed, enqueued, gen>>
    /\ OtherThreads

\* a start that goes on without the runtime
RunBeginUnguarded ==
    /\ pc_r = "begin"
    /\ log' = WriteRow(log, HeaderRow)
    /\ pc_r' = "start_audio"
    /\ UNCHANGED <<stop_flag, q_frames, sent_lines, ui, loc, audio,
                   completed_naturally, deadline_passed, enqueued, gen>>
    /\ OtherThreads

\* a start that opens the log and writes no header
RunBeginNoHeader ==
    /\ pc_r = "begin"
    /\ IF ~runtime
       THEN ui' = Append(ui, "NumPy is not available") /\ pc_r' = "done"
       ELSE ui' = ui /\ pc_r' = "start_audio"
    /\ UNCHANGED <<stop_flag, q_frames, sent_lines, log, loc, audio,
                   completed_naturally, deadline_passed, enqueued, gen>>
    /\ OtherThreads

\* lines 136-142: the runtime check, then the log is opened and the header written
RunBegin ==
    /\ pc_r = "begin"
    /\ IF ~runtime
       THEN /\ ui' = Append(ui, "NumPy is not available")
            /\ log' = log
            /\ pc_r' = "done"
       ELSE /\ ui' = ui
            /\ log' = WriteRow(log, HeaderRow)
            /\ pc_r' = "start_audio"
    /\ UNCHANGED <<stop_flag, q_frames, sent_lines, loc, audio,
                   completed_naturally, deadline_passed, enqueued, gen>>
    /\ OtherThreads

\* lines 144-148: the delivery thread is created and started
RunStartAudio ==
    /\ pc_r = "start_audio"
    /\ pc_a' = "a_init"
    /\ pc_r' = "dispatch"
    /\ completed_naturally' = FALSE
    /\ UNCHANGED <<stop_flag, q_frames, sent_lines, log, ui, loc, audio,
                   deadline_passed, enqueued, gen>>
    /\ UNCHANGED <<pc_c, frame, written, hist, spec, runtime, lock, sent_copy, call>>

\* lines 160-163: the sentinel is put
RunPutSentinel ==
    /\ pc_r = "put_none"
    /\ ~QueueFull(q_frames)
    /\ q_frames' = QueuePut(q_frames, None)
    /\ hist' = [hist EXCEPT !.run_sentinel = TRUE]
    /\ pc_r' = "check_complete"
    /\ UNCHANGED <<stop_flag, sent_lines, log, ui, loc, audio,
                   completed_naturally, deadline_passed, enqueued, gen>>
    /\ UNCHANGED <<pc_a, pc_c, frame, written, spec, runtime, lock, sent_copy, call>>

\* lines 162-163: the put of the sentinel times out on a full queue
RunPutSentinelFull ==
    /\ pc_r = "put_none"
    /\ QueueFull(q_frames)
    /\ pc_r' = "check_complete"
    /\ UNCHANGED <<stop_flag, q_frames, sent_lines, log, ui, loc, audio,
                   completed_naturally, deadline_passed, enqueued, gen>>
    /\ OtherThreads

\* a test that has lost its "not"
MayNotifyInverted(completed, flag) == completed /\ flag

\* line 166: completed_naturally and not self.stop_flag.is_set()
MayNotify(completed, flag) == completed /\ ~flag

\* line 166: the test that guards the notification
RunCheckComplete ==
    /\ pc_r = "check_complete"
    /\ pc_r' = IF MayNotify(completed_naturally, stop_flag) THEN "notify" ELSE "done"
    /\ UNCHANGED <<stop_flag, q_frames, sent_lines, log, ui, loc, audio,
                   completed_naturally, deadline_passed, enqueued, gen>>
    /\ OtherThreads

\* line 167: the callback
RunNotify ==
    /\ pc_r = "notify"
    /\ ui' = Append(ui, "SESSION_COMPLETE")
    /\ pc_r' = "done"
    /\ UNCHANGED <<stop_flag, q_frames, sent_lines, log, loc, audio,
                   completed_naturally, deadline_passed, enqueued, gen>>
    /\ OtherThreads


----------------------------------------------------------------------------
(* SessionRunner._run_reanchor *)

Pattern(sp, reps) == Repeat(<<Upper(sp.pair[1]), Upper(sp.pair[2])>>, reps)

\* f"{wpm}wpm_{reps*2}chars"
BlockInfo(wpm, reps) == <<wpm, "wpm_", reps * 2, "chars">>

\* lines 184-224: the repetition counts, the patterns, t_end, the instructions
ReanchorSetup ==
    /\ pc_r = "dispatch"
    /\ spec.mode = "reanchor"
    /\ \E reps \in ReanchorRepsOutcomes(spec.timing_balance, spec.low_wpm, spec.high_wpm) :
          loc' = [NoLocals EXCEPT !.low_reps = reps.low, !.high_reps = reps.high,
                                  !.lines = <<Pattern(spec, reps.low), Pattern(spec, reps.high)>>]
    /\ ui' = Append(ui, "Re-anchor mode")
    /\ deadline_passed' = FALSE
    /\ pc_r' = "ra_check"
    /\ UNCHANGED <<stop_flag, q_frames, sent_lines, log, audio,
                   completed_naturally, enqueued, gen>>
    /\ OtherThreads

\* line 226 and line 300: not self.stop_flag.is_set() and time.time() < t_end
LoopContinues(flag, passed) == ~flag /\ ~passed

\* line 226: the loop test
ReanchorCheck ==
    /\ pc_r = "ra_check"
    /\ IF LoopContinues(stop_flag, deadline_passed)
       THEN /\ loc.idx < MaxReanchorIters
            /\ pc_r' = "ra_low"
       ELSE pc_r' = "ra_ret"
    /\ loc' = [loc EXCEPT !.saw_stop = stop_flag]
    /\ UNCHANGED <<stop_flag, q_frames, sent_lines, log, ui, audio,
                   completed_naturally, deadline_passed, enqueued, gen>>
    /\ OtherThreads

\* lines 227-229: the low block is logged, synthesized and enqueued
ReanchorLow ==
    /\ pc_r = "ra_low"
    /\ log' = WriteRow(log, EventRow(spec, "block", BlockInfo(spec.low_wpm, loc.low_reps)))
    /\ CallEnqueue(loc.lines[1], spec.low_wpm, "ra_mid", loc)
    /\ UNCHANGED <<stop_flag, q_frames, sent_lines, ui,
                   completed_naturally, deadline_passed, enqueued>>
    /\ OtherThreads

\* a loop that goes on to the high block whatever the flag says
ReanchorMidIgnoresStop ==
    /\ pc_r = "ra_mid"
    /\ pc_r' = "ra_high"
    /\ UNCHANGED <<stop_flag, q_frames, sent_lines, log, ui, loc, audio,
                   completed_naturally, deadline_passed, enqueued, gen>>
    /\ OtherThreads

\* lines 230-231: the check between the two blocks
ReanchorMid ==
    /\ pc_r = "ra_mid"
    /\ IF stop_flag
       THEN completed_naturally' = FALSE /\ pc_r' = "put_none"
       ELSE completed_naturally' = completed_naturally /\ pc_r' = "ra_high"
    /\ UNCHANGED <<stop_flag, q_frames, sent_lines, log, ui, loc, audio,
                   deadline_passed, enqueued, gen>>
    /\ OtherThreads

\* lines 233-235: the high block is logged, synthesized and enqueued
ReanchorHigh ==
    /\ pc_r = "ra_high"
    /\ log' = WriteRow(log, EventRow(spec, "block", BlockInfo(spec.high_wpm, loc.high_reps)))
    /\ CallEnqueue(loc.lines[2], spec.high_wpm, "ra_check",
                   [loc EXCEPT !.idx = loc.idx + 1])
    /\ UNCHANGED <<stop_flag, q_frames, sent_lines, ui,
                   completed_naturally, deadline_passed, enqueued>>
    /\ OtherThreads

\* line 237: return time.time() >= t_end
ReanchorReturn ==
    /\ pc_r = "ra_ret"
    /\ completed_naturally' = deadline_passed
    /\ pc_r' = "put_none"
    /\ UNCHANGED <<stop_flag, q_frames, sent_lines, log, ui, loc, audio,
                   deadline_passed, enqueued, gen>>
    /\ OtherThreads

\* Wall-clock time reaches t_end.  The clock is read at the loop tests and at
\* the returns of the two deadline-bounded loops only.
Tick ==
    /\ pc_r \in {"ra_check", "ra_ret", "ov_check", "ov_ret"}
    /\ ~deadline_passed
    /\ deadline_passed' = TRUE
    /\ UNCHANGED <<spec, runtime, stop_flag, q_frames, sent_lines, log, ui, pc_r,
                   pc_a, pc_c, loc, audio, frame, completed_naturally, written,
                   enqueued, gen, hist, lock, sent_copy, call>>

----------------------------------------------------------------------------
(* SessionRunner._run_contrast *)

\* lines 246-249: the catalog, the synth, the instructions
ContrastSetup ==
    /\ pc_r = "dispatch"
    /\ spec.mode = "contrast"
    /\ loc' = [NoLocals EXCEPT !.lines = build_pair_sequences(spec.pair, CATALOG_LINES),
                               !.idx = 1]
    /\ ui' = Append(ui, "Contrast mode")
    /\ pc_r' = "rc_check"
    /\ UNCHANGED <<stop_flag, q_frames, sent_lines, log, audio,
                   completed_naturally, deadline_passed, enqueued, gen>>
    /\ OtherThreads

\* lines 253-254: the check before each line
ContrastCheck ==
    /\ pc_r = "rc_check"
    /\ IF stop_flag
       THEN completed_naturally' = FALSE /\ pc_r' = "put_none"
       ELSE completed_naturally' = completed_naturally /\ pc_r' = "rc_log"
    /\ UNCHANGED <<stop_flag, q_frames, sent_lines, log, ui, loc, audio,
                   deadline_passed, enqueued, gen>>
    /\ OtherThreads

\* lines 255-256: the line is logged, synthesized and enqueued
ContrastLine ==
    /\ pc_r = "rc_log"
    /\ log' = WriteRow(log, EventRow(spec, "line", loc.lines[loc.idx]))
    /\ CallEnqueue(loc.lines[loc.idx], spec.wpm, "rc_gap", loc)
    /\ UNCHANGED <<stop_flag, q_frames, sent_lines, ui,
                   completed_naturally, deadline_passed, enqueued>>
    /\ OtherThreads

\* line 257: the silence after the line; then the inner for loop advances
ContrastGap ==
    /\ pc_r = "rc_gap"
    /\ CallEnqueue(GapText, spec.wpm,
                   IF loc.idx < Len(loc.lines) THEN "rc_check" ELSE "rc_pass",
                   [loc EXCEPT !.idx = loc.idx + 1])
    /\ UNCHANGED <<stop_flag, q_frames, sent_lines, log, ui,
                   completed_naturally, deadline_passed, enqueued>>
    /\ OtherThreads

\* lines 258-260: the check after each pass; the outer for loop advances
ContrastPassCheck ==
    /\ pc_r = "rc_pass"
    /\ IF stop_flag
       THEN /\ completed_naturally' = FALSE
            /\ pc_r' = "put_none"
            /\ loc' = loc
       ELSE IF loc.pass + 1 < CONTRAST_PASSES
       THEN /\ completed_naturally' = completed_naturally
            /\ pc_r' = "rc_check"
            /\ loc' = [loc EXCEPT !.pass = loc.pass + 1, !.idx = 1]
       ELSE /\ completed_naturally' = TRUE
            /\ pc_r' = "put_none"
            /\ loc' = [loc EXCEPT !.pass = loc.pass + 1]
    /\ UNCHANGED <<stop_flag, q_frames, sent_lines, log, ui, audio,
                   deadline_passed, enqueued, gen>>
    /\ OtherThreads


----------------------------------------------------------------------------
(* SessionRunner._run_context *)

\* an append that drops the line
AppendNothing(lines, line) == lines

\* an append that keeps the latest line only
AppendReplacing(lines, line) == <<line>>

\* lines 279 and 303: self.sent_lines.append(line)
AppendLine(lines, line) == Append(lines, line)

\* lines 269-272: the generated lines, the mono synth, the instructions
ContextSetup ==
    /\ pc_r = "dispatch"
    /\ spec.mode = "context"
    /\ \E r \in RandomStreams :
          loc' = [NoLocals EXCEPT !.lines = build_context_lines(spec.pair, CATALOG_LINES, r),
                                  !.idx = 1]
    /\ ui' = Append(ui, "Context mode")
    /\ pc_r' = "cx_check"
    /\ UNCHANGED <<stop_flag, q_frames, sent_lines, log, audio,
                   completed_naturally, deadline_passed, enqueued, gen>>
    /\ OtherThreads

\* lines 276-277: the check before each line
ContextCheck ==
    /\ pc_r = "cx_check"
    /\ IF stop_flag
       THEN completed_naturally' = FALSE /\ pc_r' = "put_none"
       ELSE completed_naturally' = completed_naturally /\ pc_r' = "cx_append"
    /\ UNCHANGED <<stop_flag, q_frames, sent_lines, log, ui, loc, audio,
                   deadline_passed, enqueued, gen>>
    /\ OtherThreads

\* lines 278-279: the line joins the ground truth, under the lock
ContextAppend ==
    /\ pc_r = "cx_append"
    /\ sent_lines' = AppendLine(sent_lines, loc.lines[loc.idx])
    /\ pc_r' = "cx_log"
    /\ UNCHANGED <<stop_flag, q_frames, log, ui, loc, audio,
                   completed_naturally, deadline_passed, enqueued, gen>>
    /\ OtherThreads

\* lines 280-281: the line is logged, synthesized and enqueued
ContextLine ==
    /\ pc_r = "cx_log"
    /\ log' = WriteRow(log, EventRow(spec, "ctx", loc.lines[loc.idx]))
    /\ CallEnqueue(loc.lines[loc.idx], spec.wpm, "cx_gap", loc)
    /\ UNCHANGED <<stop_flag, q_frames, sent_lines, ui,
                   completed_naturally, deadline_passed, enqueued>>
    /\ OtherThreads

\* line 282: the silence after the line; then the inner for loop advances
ContextGap ==
    /\ pc_r = "cx_gap"
    /\ CallEnqueue(GapText, spec.wpm,
                   IF loc.idx < Len(loc.lines) THEN "cx_check" ELSE "cx_pass",
                   [loc EXCEPT !.idx = loc.idx + 1])
    /\ UNCHANGED <<stop_flag, q_frames, sent_lines, log, ui,
                   completed_naturally, deadline_passed, enqueued>>
    /\ OtherThreads

\* lines 283-285: the check after each pass; the outer for loop advances
ContextPassCheck ==
    /\ pc_r = "cx_pass"
    /\ IF stop_flag
       THEN /\ completed_naturally' = FALSE
            /\ pc_r' = "put_none"
            /\ loc' = loc
       ELSE IF loc.pass + 1 < CONTRAST_PASSES
       THEN /\ completed_naturally' = completed_naturally
            /\ pc_r' = "cx_check"
            /\ loc' = [loc EXCEPT !.pass = loc.pass + 1, !.idx = 1]
       ELSE /\ completed_naturally' = TRUE
            /\ pc_r' = "put_none"
            /\ loc' = [loc EXCEPT !.pass = loc.pass + 1]
    /\ UNCHANGED <<stop_flag, q_frames, sent_lines, log, ui, audio,
                   deadline_passed, enqueued, gen>>
    /\ OtherThreads

----------------------------------------------------------------------------
(* SessionRunner._run_overspeed *)

\* lines 294-299: the mono synth, the catalog, t_end, the instructions, i = 0
OverspeedSetup ==
    /\ pc_r = "dispatch"
    /\ spec.mode = "overspeed"
    /\ loc' = [NoLocals EXCEPT !.lines = build_pair_sequences(spec.pair, CATALOG_LINES)]
    /\ ui' = Append(ui, "Overspeed mode")
    /\ deadline_passed' = FALSE
    /\ pc_r' = "ov_check"
    /\ UNCHANGED <<stop_flag, q_frames, sent_lines, log, audio,
                   completed_naturally, enqueued, gen>>
    /\ OtherThreads

\* a catalog played once through, the last line repeated from then on
RoundRobinNoWrap(lines, i) == lines[Min(i + 1, Len(lines))]

\* pattern_lines[i % len(pattern_lines)]
RoundRobin(lines, i) == lines[(i % Len(lines)) + 1]

\* line 300: the loop test
OverspeedCheck ==
    /\ pc_r = "ov_check"
    /\ IF LoopContinues(stop_flag, deadline_passed)
       THEN /\ loc.idx < MaxOverspeedLines
            /\ pc_r' = "ov_append"
       ELSE pc_r' = "ov_ret"
    /\ loc' = [loc EXCEPT !.saw_stop = stop_flag]
    /\ UNCHANGED <<stop_flag, q_frames, sent_lines, log, ui, audio,
                   completed_naturally, deadline_passed, enqueued, gen>>
    /\ OtherThreads

\* lines 301-303: the line joins the ground truth, under the lock
OverspeedAppend ==
    /\ pc_r = "ov_append"
    /\ sent_lines' = AppendLine(sent_lines, RoundRobin(loc.lines, loc.idx))
    /\ pc_r' = "ov_log"
    /\ UNCHANGED <<stop_flag, q_frames, log, ui, loc, audio,
                   completed_naturally, deadline_passed, enqueued, gen>>
    /\ OtherThreads

\* lines 304-305: the line is logged, synthesized and enqueued
OverspeedLine ==
    /\ pc_r = "ov_log"
    /\ log' = WriteRow(log, EventRow(spec, "overspeed_line", RoundRobin(loc.lines, loc.idx)))
    /\ CallEnqueue(RoundRobin(loc.lines, loc.idx), spec.overspeed_wpm, "ov_gap", loc)
    /\ UNCHANGED <<stop_flag, q_frames, sent_lines, ui,
                   completed_naturally, deadline_passed, enqueued>>
    /\ OtherThreads

\* lines 306-307: the silence after the line; i += 1
OverspeedGap ==
    /\ pc_r = "ov_gap"
    /\ CallEnqueue(GapText, spec.overspeed_wpm, "ov_check",
                   [loc EXCEPT !.idx = loc.idx + 1])
    /\ UNCHANGED <<stop_flag, q_frames, sent_lines, log, ui,
                   completed_naturally, deadline_passed, enqueued>>
    /\ OtherThreads

\* line 308: return time.time() >= t_end
OverspeedReturn ==
    /\ pc_r = "ov_ret"
    /\ completed_naturally' = deadline_passed
    /\ pc_r' = "put_none"
    /\ UNCHANGED <<stop_flag, q_frames, sent_lines, log, ui, loc, audio,
                   deadline_passed, enqueued, gen>>
    /\ OtherThreads

----------------------------------------------------------------------------
(* AudioThread.run *)

\* what a step of the delivery thread leaves alone
NotAudio == UNCHANGED <<spec, runtime, stop_flag, sent_lines, log, ui, pc_r, pc_c,
                        loc, audio, completed_naturally, deadline_passed,
                        enqueued, gen, lock, sent_copy, call>>

\* lines 46-49: the runtime check, then the output stream is opened
AudioInit ==
    /\ pc_a = "a_init"
    /\ pc_a' = IF ~runtime THEN "a_done" ELSE "a_check"
    /\ UNCHANGED <<q_frames, frame, written, hist>>
    /\ NotAudio

\* a delivery loop that ends on the sentinel only
AudioLoopIgnoresFlag(flag) == TRUE

\* line 50: while not self.stop_flag.is_set()
AudioLoopContinues(flag) == ~flag

\* line 50: the loop test
AudioCheck ==
    /\ pc_a = "a_check"
    /\ pc_a' = IF AudioLoopContinues(stop_flag) THEN "a_get" ELSE "a_done"
    /\ UNCHANGED <<q_frames, frame, written, hist>>
    /\ NotAudio

\* line 55: frame is None
IsSentinel(f) == f = None

\* lines 52, 55-56: a frame is dequeued; the sentinel ends the loop
AudioGet ==
    /\ pc_a = "a_get"
    /\ Len(q_frames) > 0
    /\ frame' = QueueHead(q_frames)
    /\ q_frames' = QueueRest(q_frames)
    /\ hist' = [hist EXCEPT !.deq = hist.deq + 1]
    /\ pc_a' = IF IsSentinel(QueueHead(q_frames)) THEN "a_done" ELSE "a_write"
    /\ UNCHANGED written
    /\ NotAudio

\* lines 53-54: the get times out on an empty queue
AudioGetEmpty ==
    /\ pc_a = "a_get"
    /\ Len(q_frames) = 0
    /\ pc_a' = "a_check"
    /\ UNCHANGED <<q_frames, frame, written, hist>>
    /\ NotAudio

\* line 57: the frame is written to the output stream
AudioWrite ==
    /\ pc_a = "a_write"
    /\ written' = Append(written, frame)
    /\ pc_a' = "a_check"
    /\ UNCHANGED <<q_frames, frame, hist>>
    /\ NotAudio

\* a delivery thread that reports the error and goes back to its loop
AudioWriteErrorRetries ==
    /\ pc_a = "a_write"
    /\ hist' = [hist EXCEPT !.render_error = TRUE]
    /\ pc_a' = "a_check"
    /\ UNCHANGED <<q_frames, frame, written>>
    /\ NotAudio

\* lines 57-59: the write raises; the error is printed and the thread ends
AudioWriteError ==
    /\ pc_a = "a_write"
    /\ hist' = [hist EXCEPT !.render_error = TRUE]
    /\ pc_a' = "a_done"
    /\ UNCHANGED <<q_frames, frame, written>>
    /\ NotAudio

----------------------------------------------------------------------------
(* SessionRunner.stop, called by the controlling thread *)

NotController == UNCHANGED <<spec, runtime, sent_lines, log, ui, pc_r, pc_a, loc,
                            audio, frame, completed_naturally, deadline_passed,
                            written, enqueued, gen, lock, sent_copy, call>>

\* a flag that is toggled instead of set
FlagToggled(flag) == ~flag

\* line 82: the value of the flag after self.stop_flag.set()
FlagAfterSet(flag) == TRUE

\* the state of the session when the flag is first set
Snapshot == [enq |-> Len(enqueued), written |-> Len(written), deq |-> hist.deq,
             log |-> Len(log), sent |-> Len(sent_lines), ui |-> Len(ui),
             notifying |-> (pc_r = "notify")]

\* line 82: stop() sets the flag.  The application calls stop() once for a
\* runner (vbz.py, lines 257-258 and 293-294).
StopSetFlag ==
    /\ pc_c = "ready"
    /\ hist.stops = 0
    /\ stop_flag' = FlagAfterSet(stop_flag)
    /\ hist' = [hist EXCEPT !.stops = 1, !.snap = Snapshot]
    /\ pc_c' = "stop_put"
    /\ UNCHANGED q_frames
    /\ NotController

\* line 82, in a call of stop() that follows an earlier call
StopAgainSetFlag ==
    /\ pc_c = "ready"
    /\ hist.stops >= 1
    /\ hist.stops < MaxStops
    /\ stop_flag' = FlagAfterSet(stop_flag)
    /\ hist' = [hist EXCEPT !.stops = hist.stops + 1]
    /\ pc_c' = "stop_put"
    /\ UNCHANGED q_frames
    /\ NotController

\* line 84: the sentinel is put
StopPut ==
    /\ pc_c = "stop_put"
    /\ ~QueueFull(q_frames)
    /\ q_frames' = QueuePut(q_frames, None)
    /\ pc_c' = "ready"
    /\ UNCHANGED <<stop_flag, hist>>
    /\ NotController

\* lines 85-86: the put times out on a full queue
StopPutFull ==
    /\ pc_c = "stop_put"
    /\ QueueFull(q_frames)
    /\ pc_c' = "ready"
    /\ UNCHANGED <<stop_flag, q_frames, hist>>
    /\ NotController

----------------------------------------------------------------------------
(* The mutex _sent_lines_lock, step by step *)

\* a mutex anybody can take at any time
LockAlwaysFree(l) == TRUE

\* threading.Lock: acquire blocks until the lock is free
LockFree(l) == l = "free"

\* what a step of the orchestrator inside the with-block leaves alone
NotLocked == UNCHANGED <<stop_flag, q_frames, log, ui, loc, audio, completed_naturally,
                         deadline_passed, enqueued, gen, pc_a, pc_c, frame, written,
                         hist, spec, runtime, sent_copy, call>>

\* lines 278 and 302: with self._sent_lines_lock, entered
RunnerAcquire ==
    /\ pc_r \in {"cx_append", "ov_append"}
    /\ LockFree(lock)
    /\ lock' = "runner"
    /\ pc_r' = IF pc_r = "cx_append" THEN "cx_locked" ELSE "ov_locked"
    /\ UNCHANGED sent_lines
    /\ NotLocked

\* lines 279 and 303: the append, inside the with-block
RunnerAppendLocked ==
    /\ pc_r \in {"cx_locked", "ov_locked"}
    /\ sent_lines' = AppendLine(sent_lines,
                                IF pc_r = "cx_locked" THEN loc.lines[loc.idx]
                                ELSE RoundRobin(loc.lines, loc.idx))
    /\ pc_r' = IF pc_r = "cx_locked" THEN "cx_unlock" ELSE "ov_unlock"
    /\ UNCHANGED lock
    /\ NotLocked

\* lines 278-279 and 302-303: the with-block is left, the lock released
RunnerRelease ==
    /\ pc_r \in {"cx_unlock", "ov_unlock"}
    /\ lock' = "free"
    /\ pc_r' = IF pc_r = "cx_unlock" THEN "cx_log" ELSE "ov_log"
    /\ UNCHANGED sent_lines
    /\ NotLocked

\* what a step of App.stop_session before stop() leaves alone
NotSnapshot == UNCHANGED <<spec, runtime, stop_flag, q_frames, sent_lines, log, ui, pc_r,
                           pc_a, loc, audio, frame, completed_naturally,
                           deadline_passed, written, enqueued, gen, hist, call>>

\* vbz.py line 254: with self.runner._sent_lines_lock, entered
AppAcquire ==
    /\ pc_c = "ready"
    /\ hist.stops = 0
    /\ LockFree(lock)
    /\ lock' = "controller"
    /\ pc_c' = "snap_read"
    /\ UNCHANGED sent_copy
    /\ NotSnapshot

\* vbz.py line 255: sent_lines = list(self.runner.sent_lines)
AppCopy ==
    /\ pc_c = "snap_read"
    /\ sent_copy' = sent_lines
    /\ pc_c' = "snap_unlock"
    /\ UNCHANGED lock
    /\ NotSnapshot

\* vbz.py lines 254-255: the with-block is left, the lock released
AppRelease ==
    /\ pc_c = "snap_unlock"
    /\ lock' = "free"
    /\ pc_c' = "snap_done"
    /\ UNCHANGED sent_copy
    /\ NotSnapshot

----
----------------------------------------------------------------------------
(* App.stop_session, called by the controlling thread (vbz.py) *)

\* what the user may have typed into the copy box
TypedTexts == {<<>>, <<"h">>}

\* ["metrics", mode, pair_normalized, event, info]
MetricsRow(sp, event, info) ==
    [ts |-> "metrics", mode |-> sp.mode, pair |-> <<sp.pair[1], sp.pair[2]>>,
     event |-> event, info |-> info]

\* lines 261-279: the three rows of one scoring.  The accuracy is kept as the
\* exact ratio (1 - dist/max(1,total)) * 100 = num/den.
MetricsRows(sp, sent, typed) ==
    LET expected == norm_text(Join(<<" ">>, sent))
        total == Len(expected)
        dist == IF total > 0 THEN levenshtein(expected, norm_text(typed)) ELSE 0
    IN << MetricsRow(sp, "chars_total", total),
          MetricsRow(sp, "levenshtein", dist),
          MetricsRow(sp, "accuracy_pct",
                     [num |-> (Max(1, total) - dist) * 100, den |-> Max(1, total)]) >>

\* lines 254-255 in one step: the copy of sent_lines taken under the lock
AppSnapshot ==
    /\ pc_c = "ready"
    /\ hist.stops = 0
    /\ LockFree(lock)
    /\ sent_copy' = sent_lines
    /\ pc_c' = "snap_done"
    /\ UNCHANGED lock
    /\ NotSnapshot

\* line 257, self.runner.stop(): the flag is set
AppStopSetFlag ==
    /\ pc_c = "snap_done"
    /\ stop_flag' = FlagAfterSet(stop_flag)
    /\ hist' = [hist EXCEPT !.stops = 1, !.snap = Snapshot]
    /\ pc_c' = "app_put"
    /\ UNCHANGED q_frames
    /\ NotController

\* line 257, self.runner.stop(): the sentinel is put, or the put times out
AppStopPut ==
    /\ pc_c = "app_put"
    /\ IF QueueFull(q_frames) THEN q_frames' = q_frames
                              ELSE q_frames' = QueuePut(q_frames, None)
    /\ pc_c' = "score"
    /\ UNCHANGED <<stop_flag, hist>>
    /\ NotController

\* lines 258-279: the runner is dropped and, in context and overspeed with
\* lines played, the metrics rows are appended to the session's log file
AppScore ==
    /\ pc_c = "score"
    /\ IF spec.mode \in {"context", "overspeed"} /\ sent_copy # <<>>
       THEN \E typed \in TypedTexts :
               log' = log \o MetricsRows(spec, sent_copy, typed)
       ELSE log' = log
    /\ pc_c' = "stopped"
    /\ UNCHANGED <<spec, runtime, stop_flag, q_frames, sent_lines, ui, pc_r, pc_a,
                   loc, audio, frame, completed_naturally, deadline_passed, written,
                   enqueued, gen, hist, lock, sent_copy, call>>

----------------------------------------------------------------------------
(* The specifications *)

Enqueue == EnqueueCheckStop \/ EnqueuePut \/ EnqueuePutFull

RunCommon == RunStart \/ RunBegin \/ RunStartAudio \/ Enqueue \/ RunPutSentinel
             \/ RunPutSentinelFull \/ RunCheckComplete \/ RunNotify

Reanchor == ReanchorSetup \/ ReanchorCheck \/ ReanchorLow \/ ReanchorMid
            \/ ReanchorHigh \/ ReanchorReturn

Contrast == ContrastSetup \/ ContrastCheck \/ ContrastLine \/ ContrastGap
            \/ ContrastPassCheck

Context == ContextSetup \/ ContextCheck \/ ContextAppend \/ ContextLine
           \/ ContextGap \/ ContextPassCheck

Overspeed == OverspeedSetup \/ OverspeedCheck \/ OverspeedAppend \/ OverspeedLine
             \/ OverspeedGap \/ OverspeedReturn

Runner == RunCommon \/ Reanchor \/ Contrast \/ Context \/ Overspeed

AudioOk == AudioInit \/ AudioCheck \/ AudioGet \/ AudioGetEmpty \/ AudioWrite

Audio == AudioOk \/ AudioWriteError

Controller == StopSetFlag \/ StopPut \/ StopPutFull

\* A session of the application: any mode, stop() called at most once.
Next == Runner \/ Audio \/ Controller \/ Tick

Spec == Init /\ [][Next]_vars

\* A session of a deadline-bounded mode or of a pass-bounded mode in which
\* the orchestrator and the delivery thread each take a step when they can.
\* Nothing is assumed of the controlling thread or of the clock.
FairInit == Init /\ spec.mode \in {"overspeed", "contrast"}

FairNext == RunCommon \/ Overspeed \/ Contrast \/ Audio \/ Controller \/ Tick

FairSpec == FairInit /\ [][FairNext]_vars
            /\ WF_vars(RunCommon \/ Overspeed \/ Contrast) /\ WF_vars(Audio)

\* A session in which stop() is never called and no write fails, in the two
\* modes that end after four passes.
QuietInit == Init /\ spec.mode \in {"contrast", "context"}

QuietNext == RunCommon \/ Contrast \/ Context \/ AudioOk

QuietSpec == QuietInit /\ [][QuietNext]_vars
             /\ WF_vars(RunCommon \/ Contrast \/ Context) /\ WF_vars(AudioOk)

\* A session on which stop() is called again and again, in the two
\* deadline-bounded modes.
RestopInit == Init /\ spec.mode \in {"reanchor", "overspeed"}

RestopNext == RunCommon \/ Reanchor \/ Overspeed \/ Audio \/ Controller
              \/ StopAgainSetFlag \/ Tick

RestopSpec == RestopInit /\ [][RestopNext]_vars

\* A context or overspeed session of which App.stop_session takes its copy
\* of sent_lines, with the with-blocks of _sent_lines_lock taken step by
\* step.  The call of stop() that follows the copy is left to Spec.
LockInit == Init /\ spec.mode \in {"context", "overspeed"}

LockRunner == RunCommon \/ ContextSetup \/ ContextCheck \/ ContextLine \/ ContextGap
              \/ ContextPassCheck \/ OverspeedSetup \/ OverspeedCheck
              \/ OverspeedLine \/ OverspeedGap \/ OverspeedReturn
              \/ RunnerAcquire \/ RunnerAppendLocked \/ RunnerRelease

LockController == AppAcquire \/ AppCopy \/ AppRelease

LockNext == LockRunner \/ Audio \/ LockController \/ Tick

LockSpec == LockInit /\ [][LockNext]_vars

\* An overspeed session that the user ends with App.stop_session before the
\* two minutes are over: the copy of sent_lines, stop(), then the scoring.
\* No write to the device fails.
ScoreInit == Init /\ runtime /\ spec.mode = "overspeed"

StopSession == AppSnapshot \/ AppStopSetFlag \/ AppStopPut \/ AppScore

ScoreRunner == RunStart \/ RunBegin \/ RunStartAudio \/ Enqueue \/ RunPutSentinel
               \/ RunPutSentinelFull \/ RunCheckComplete \/ Overspeed

ScoreNext == ScoreRunner \/ AudioOk \/ StopSession

ScoreSpec == ScoreInit /\ [][ScoreNext]_vars

\* App.start_session called again once stop_session has returned (vbz.py
\* 184-249): self.runner is None, so the guard of line 186 lets it through,
\* a second SessionRunner is created and started (243-244) and the status
\* line is set.  The second runner has a stop flag, a queue and a log of its
\* own; of it the model keeps only that its thread has been started.
AppStartSession ==
    /\ pc_c = "stopped"
    /\ ui' = Append(ui, "Running")
    /\ pc_c' = "restarted"
    /\ UNCHANGED <<spec, runtime, stop_flag, q_frames, sent_lines, log, pc_r, pc_a,
                   loc, audio, frame, completed_naturally, deadline_passed, written,
                   enqueued, gen, hist, lock, sent_copy, call>>

\* An overspeed session stopped by App.stop_session and followed by a second
\* start_session.
AppInit == ScoreInit

AppNext == ScoreRunner \/ AudioOk \/ StopSession \/ AppStartSession

AppSpec == AppInit /\ [][AppNext]_vars

\* The start of a reanchor session for every timing balance in steps of
\* 0.05 and every whole low and high speed up to MaxWpm, as far as the
\* repetition counts.
Balances == {5 * k : k \in 0..20}

ReanchorSpecs ==
    [mode : {"reanchor"}, pair : {<<"h", "5">>}, wpm : {25}, low_wpm : 1..MaxWpm,
     high_wpm : 1..MaxWpm, overspeed_wpm : {30}, timing_balance : Balances]

RepsInit == spec \in ReanchorSpecs /\ StartState /\ runtime /\ call = NoCall

RepsNext == RunStart \/ RunBegin \/ RunStartAudio \/ ReanchorSetup

RepsSpec == RepsInit /\ [][RepsNext]_vars

\* The reanchor session of the end-to-end scenario (low 14, high 32, equal
\* time) and its equal-characters twin, played to the end with no stop and no
\* failing write.
ScenarioSpecs ==
    [mode : {"reanchor"}, pair : {<<"h", "5">>}, wpm : {25}, low_wpm : {14},
     high_wpm : {32}, overspeed_wpm : {30}, timing_balance : {0, 100}]

BlockInit == spec \in ScenarioSpecs /\ StartState /\ runtime /\ call = NoCall

\* With no stop a put that times out on a full queue is only retried, so the
\* put here simply waits for room.
BlockNext ==
    \/ RunStart \/ RunBegin \/ RunStartAudio \/ EnqueueCheckStop \/ EnqueuePut
    \/ RunPutSentinel \/ RunPutSentinelFull \/ RunCheckComplete \/ RunNotify
    \/ Reanchor \/ AudioOk \/ Tick

BlockSpec == BlockInit /\ [][BlockNext]_vars

----------------------------------------------------------------------------
(* One call of _enqueue_audio on a buffer of any length, with the Delivery *)
(* Thread running and no stop: the state at the head of the for loop.      *)

MaxBufferChunks == 10

\* buffer lengths at and next to the multiples of the chunk size
BufferLens ==
    {L \in {k * AUDIO_CHUNK_SIZE + d : k \in 0..MaxBufferChunks, d \in {0 - 1, 0, 1}} : L >= 1}

ChunkInit ==
    /\ spec \in DrillSpecs
    /\ spec.mode = "contrast"
    /\ StartState
    /\ runtime
    /\ call = NoCall

\* the call self._enqueue_audio(audio) with a buffer of len frames
EnqueueBuffer ==
    /\ pc_r = "idle"
    /\ \E len \in BufferLens :
          /\ audio' = [buf |-> 1, len |-> len, i |-> 0]
          /\ gen' = <<len>>
    /\ loc' = [loc EXCEPT !.ret = "returned"]
    /\ pc_r' = "enq_check"
    /\ pc_a' = "a_check"
    /\ UNCHANGED <<stop_flag, q_frames, sent_lines, log, ui, completed_naturally,
                   deadline_passed, enqueued>>
    /\ UNCHANGED <<pc_c, frame, written, hist, spec, runtime, lock, sent_copy, call>>

ChunkNext ==
    \/ EnqueueBuffer \/ EnqueueCheckStop \/ EnqueuePut \/ EnqueuePutFull
    \/ AudioCheck \/ AudioGet \/ AudioGetEmpty \/ AudioWrite

ChunkSpec == ChunkInit /\ [][ChunkNext]_vars

----------------------------------------------------------------------------
(* The helper functions, each called once on its own (vbz_tabs.py,         *)
(* vbz_utils.py, vbz_synth.py).  call holds the arguments of the call and, *)
(* once it has returned, its result.                                        *)

\* all sequences over S of length at most n
SeqsUpTo(S, n) == UNION {[1..k -> S] : k \in 0..n}

\* a call that has not run yet
Pending(fn, args) == [fn |-> fn, args |-> args, done |-> FALSE, result |-> <<>>]

Returned(fn) == call.fn = fn /\ call.done

\* what a helper call leaves alone: the whole session
NoSession == UNCHANGED <<spec, runtime, stop_flag, q_frames, sent_lines, log, ui, pc_r,
                         pc_a, pc_c, loc, audio, frame, completed_naturally,
                         deadline_passed, written, enqueued, gen, hist, lock, sent_copy>>

(* validate_pair (vbz_tabs.py); App.start_session repeats the same tests *)

MaxPairLen == 4

\* the characters typed into the pair box
PairChars == {"H", "h", "5", ",", " ", "#"}

PairInputs == SeqsUpTo(PairChars, MaxPairLen)

\* str.replace(" ", "")
NotSpace(c) == c # " "
RemoveSpaces(s) == SelectSeq(s, NotSpace)

\* str.split(","): the pieces between the commas, empty ones included
RECURSIVE SplitFrom(_, _, _)
SplitFrom(s, i, piece) ==
    IF i > Len(s) THEN <<piece>>
    ELSE IF s[i] = "," THEN <<piece>> \o SplitFrom(s, i + 1, <<>>)
    ELSE SplitFrom(s, i + 1, Append(piece, s[i]))

Split(s) == SplitFrom(s, 1, <<>>)

\* str.strip(): white space taken off both ends
RECURSIVE Strip(_)
Strip(s) ==
    IF s = <<>> THEN s
    ELSE IF Head(s) = " " THEN Strip(Tail(s))
    ELSE IF s[Len(s)] = " " THEN Strip(SubSeq(s, 1, Len(s) - 1))
    ELSE s

\* a in MORSE_MAP: the keys are the single characters A-Z and 0-9
InMorseMap(a) == Len(a) = 1 /\ a[1] \in DOMAIN MORSE_MAP

PairError(msg) == [pair |-> <<>>, err |-> msg]

\* lines 11-30: ((a, b), None) or (None, error_message)
validate_pair(pair_var) ==
    LET pair_str == RemoveSpaces(pair_var)
        parts == Split(pair_str)
        a == UpperText(Strip(parts[1]), 1)
        b == UpperText(Strip(parts[2]), 1)
    IN IF \A k \in 1..Len(pair_str) : pair_str[k] # ","
       THEN PairError("Enter active pair as A,B (e.g., H,5)")
       ELSE IF Len(parts) # 2
       THEN PairError("Enter exactly two characters separated by comma")
       ELSE IF a = <<>> \/ b = <<>>
       THEN PairError("Both characters must be non-empty")
       ELSE IF ~InMorseMap(a) \/ ~InMorseMap(b)
       THEN PairError("Character is not valid. Use A-Z or 0-9.")
       ELSE [pair |-> <<a, b>>, err |-> "None"]

CallValidatePair ==
    /\ call.fn = "validate_pair"
    /\ ~call.done
    /\ call' = [call EXCEPT !.done = TRUE, !.result = validate_pair(call.args)]
    /\ NoSession

(* The tabs: validate_inputs and get_drill_spec (vbz_tabs.py) *)

\* what the speed and tone boxes may hold (tk.DoubleVar, typed freely)
WpmInputs == {-1, 0, 1, 25, 100, 101}
ToneInputs == {99, 650, 2001}

\* the widgets each tab reads
TabInputs ==
    [tab : {"reanchor"}, pair : {<<"H", ",", "5">>, <<"H", "5">>}, tone : ToneInputs,
     low_wpm : WpmInputs, high_wpm : WpmInputs]
    \cup [tab : {"contrast", "context"}, pair : {<<"H", ",", "5">>, <<"H", "5">>},
          tone : ToneInputs, wpm : WpmInputs]
    \cup [tab : {"overspeed"}, pair : {<<"H", ",", "5">>, <<"H", "5">>},
          tone : ToneInputs, overspeed_wpm : WpmInputs]

\* validate_tone, lines 33-38
validate_tone(tone_hz) ==
    IF tone_hz < 100 \/ tone_hz > 2000
    THEN "Tone frequency must be between 100 and 2000 Hz" ELSE "None"

\* lines 348-350, 470-472, 580-582: the speed test of a tab
WpmError(wpm) ==
    IF wpm <= 0 \/ wpm > 100 THEN "WPM must be between 1 and 100" ELSE "None"

\* validate_inputs of the four tabs (lines 187-196, 344-357, 466-479, 575-588):
\* the pair, then the tab's speed where the tab tests one, then the tone
validate_inputs(w) ==
    LET pair_err == validate_pair(w.pair).err
        wpm_err == IF w.tab = "reanchor" THEN "None"
                   ELSE IF w.tab = "overspeed" THEN WpmError(w.overspeed_wpm)
                   ELSE WpmError(w.wpm)
    IN IF pair_err # "None" THEN pair_err
       ELSE IF wpm_err # "None" THEN wpm_err
       ELSE validate_tone(w.tone)

\* get_drill_spec of the four tabs (lines 198-217, 359-376, 481-490, 590-600):
\* the speeds put into the DrillSpec; fields a tab leaves out take the
\* defaults of the dataclass (low_wpm 12, high_wpm 36, overspeed_wpm 30)
get_drill_spec(w) ==
    [mode |-> w.tab,
     pair |-> validate_pair(w.pair).pair,
     wpm |-> IF w.tab = "reanchor" THEN w.low_wpm
             ELSE IF w.tab = "overspeed" THEN w.overspeed_wpm ELSE w.wpm,
     low_wpm |-> IF w.tab = "reanchor" THEN w.low_wpm ELSE 12,
     high_wpm |-> IF w.tab = "reanchor" THEN w.high_wpm ELSE 36,
     overspeed_wpm |-> IF w.tab = "overspeed" THEN w.overspeed_wpm ELSE 30]

\* the caller's sequence: validate_inputs, and get_drill_spec only if no
\* error came back
CallValidateInputs ==
    /\ call.fn = "validate_inputs"
    /\ ~call.done
    /\ LET err == validate_inputs(call.args)
       IN call' = [call EXCEPT !.done = TRUE,
                               !.result = [err |-> err,
                                           drill |-> IF err = "None"
                                                     THEN <<get_drill_spec(call.args)>>
                                                     ELSE <<>>]]
    /\ NoSession

(* dit_seconds (vbz_utils.py) and the durations built on it (vbz_synth.py). *)
(* A float is kept as the exact fraction num/den, den > 0.                  *)

RECURSIVE GCD(_, _)
GCD(a, b) == IF b = 0 THEN a ELSE GCD(b, a % b)

\* n/d in lowest terms
Frac(n, d) ==
    LET g == GCD(IF n < 0 THEN 0 - n ELSE n, d)
    IN [num |-> n \div g, den |-> d \div g]
FracEq(a, b) == a.num * b.den = b.num * a.den
FracLe(a, b) == a.num * b.den <= b.num * a.den
Times(k, a) == Frac(k * a.num, a.den)

\* the speeds dit_seconds is called with: whole, half and quarter WPM
WpmDens == {1, 2, 4}
WpmValues == {Frac(n, d) : n \in (0 - 2)..MaxWpm, d \in WpmDens}

\* 1.2 / max(1, wpm): max returns 1 unless wpm > 1
dit_seconds(wpm) ==
    IF wpm.num > wpm.den THEN Frac(12 * wpm.den, 10 * wpm.num) ELSE Frac(12, 10)

\* _symbol_to_units line 71, _char_gap and _word_gap before jitter
DahSeconds(wpm) == Times(3, dit_seconds(wpm))
CharGapSeconds(wpm) == Times(3, dit_seconds(wpm))
WordGapSeconds(wpm) == Times(7, dit_seconds(wpm))

CallDitSeconds ==
    /\ call.fn = "dit_seconds"
    /\ ~call.done
    /\ call' = [call EXCEPT !.done = TRUE,
                            !.result = [dit |-> dit_seconds(call.args),
                                        dah |-> DahSeconds(call.args),
                                        char_gap |-> CharGapSeconds(call.args),
                                        word_gap |-> WordGapSeconds(call.args)]]
    /\ NoSession

(* MorseSynth._jitter (vbz_synth.py) *)

FracAdd(a, b) == Frac(a.num * b.den + b.num * a.den, a.den * b.den)
FracMul(a, b) == Frac(a.num * b.num, a.den * b.den)
\* max(a, b) of Python: b only if it is greater than a
FracMax(a, b) == IF FracLe(b, a) THEN a ELSE b

\* random.random() is drawn from 0/JitterSteps .. JitterSteps/JitterSteps; the
\* upper end stands for a product that rounds up to the end of the range
JitterSteps == 4
Randoms == {Frac(k, JitterSteps) : k \in 0..JitterSteps}

\* random.uniform(a, b): a + (b - a) * random()
uniform(a, b, r) == FracAdd(a, FracMul(FracAdd(b, Times(0 - 1, a)), r))

\* the same without the floor at zero
JitterUnclamped(base, j, rng) ==
    IF j.num <= 0 THEN [value |-> base, rng |-> rng]
    ELSE LET delta == FracMul(base, j)
         IN [value |-> FracAdd(base, uniform(Times(0 - 1, delta), delta, Head(rng))),
             rng |-> Tail(rng)]

\* lines 49-59.  rng is the stream of random() values still to come; the
\* result is the duration and the stream left over.
_jitter(base, j, rng) ==
    IF j.num <= 0 THEN [value |-> base, rng |-> rng]
    ELSE LET delta == FracMul(base, j)
         IN [value |-> FracMax(Frac(0, 1),
                               FracAdd(base, uniform(Times(0 - 1, delta), delta, Head(rng)))),
             rng |-> Tail(rng)]

\* the calls of _jitter made in a row on one synthesizer
JitterCalls == 2

\* base durations in seconds, jitter_pct, and the random stream
JitterInputs ==
    [base : {Frac(0, 1), Frac(5, 100), Frac(12, 10)},
     j : {Frac(n, 100) : n \in {0 - 10, 0, 10, 30, 100, 150, 250}},
     rng : [1..JitterCalls -> Randoms]]

CallJitter ==
    /\ call.fn = "_jitter"
    /\ ~call.done
    /\ LET r == _jitter(call.args.base, call.args.j, call.result.rng)
           values == Append(call.result.values, r.value)
       IN call' = [call EXCEPT !.done = (Len(values) = JitterCalls),
                               !.result = [values |-> values, rng |-> r.rng]]
    /\ NoSession

(* MorseSynth._symbol_to_units (vbz_synth.py) *)

Unit(kind, sec) == [kind |-> kind, sec |-> sec]

\* the loop with a silence appended after every tone, the last included
RECURSIVE UnitsTrailingSilence(_, _, _, _, _, _)
UnitsTrailingSilence(code, i, d, dah, j, rng) ==
    IF i > Len(code) THEN <<>>
    ELSE LET tone == _jitter(IF code[i] = "." THEN d ELSE dah, j, rng)
             sil == _jitter(d, j, tone.rng)
         IN <<Unit("tone", tone.value), Unit("sil", sil.value)>>
            \o UnitsTrailingSilence(code, i + 1, d, dah, j, sil.rng)

\* lines 75-81: for i, ch in enumerate(code), with intra = d
RECURSIVE UnitsFrom(_, _, _, _, _, _)
UnitsFrom(code, i, d, dah, j, rng) ==
    IF i > Len(code) THEN <<>>
    ELSE LET tone == _jitter(IF code[i] = "." THEN d ELSE dah, j, rng)
             sil == _jitter(d, j, tone.rng)
         IN IF i # Len(code)
            THEN <<Unit("tone", tone.value), Unit("sil", sil.value)>>
                 \o UnitsFrom(code, i + 1, d, dah, j, sil.rng)
            ELSE <<Unit("tone", tone.value)>>

\* MORSE_MAP.get(symbol.upper(), '')
CodeOf(symbol) ==
    IF Upper(symbol) \in DOMAIN MORSE_MAP THEN MORSE_MAP[Upper(symbol)] ELSE <<>>

\* lines 61-82
_symbol_to_units(symbol, wpm, j, rng) ==
    UnitsFrom(CodeOf(symbol), 1, dit_seconds(wpm), DahSeconds(wpm), j, rng)

\* the most draws one symbol takes: five tones and four silences
UnitDraws == 2 * 5 - 1

\* every letter in both cases, every digit, and some other characters; jitter
\* off, or on with a stream that repeats one draw
SymbolInputs ==
    [symbol : {UpperAlpha[k] : k \in 1..Len(UpperAlpha)}
              \cup {LowerAlpha[k] : k \in 1..Len(LowerAlpha)}
              \cup {"0", "1", "2", "3", "4", "5", "6", "7", "8", "9"}
              \cup {"#", " ", ",", "?"},
     wpm : {Frac(25, 1), Frac(1, 2)},
     j : {Frac(0, 1)},
     rng : {<<>>}]
    \cup [symbol : {"a", "5", "Q", "#"},
          wpm : {Frac(25, 1)},
          j : {Frac(30, 100)},
          rng : {[k \in 1..UnitDraws |-> r] : r \in Randoms}]

CallSymbolToUnits ==
    /\ call.fn = "_symbol_to_units"
    /\ ~call.done
    /\ call' = [call EXCEPT !.done = TRUE,
                            !.result = _symbol_to_units(call.args.symbol, call.args.wpm,
                                                        call.args.j, call.args.rng)]
    /\ NoSession

(* MorseSynth._pan_for_symbol (vbz_synth.py) *)

\* min(1.0, max(0.0, pan_strength))
ClampUnit(x) ==
    LET lo == FracMax(Frac(0, 1), x)
    IN IF FracLe(Frac(1, 1), lo) THEN Frac(1, 1) ELSE lo

\* lines 124-134.  sp is the stereo_pair of the SynthConfig, <<>> for None.
_pan_for_symbol(sp, pan_strength, symbol) ==
    IF sp # <<>> /\ \E k \in 1..Len(sp) : sp[k] = Upper(symbol)
    THEN LET a == Upper(sp[1])
             s == ClampUnit(pan_strength)
             lean == FracAdd(Frac(1, 1), Times(0 - 1, s))
         IN IF Upper(symbol) = a THEN <<Frac(1, 1), lean>> ELSE <<lean, Frac(1, 1)>>
    ELSE <<Frac(1, 1), Frac(1, 1)>>

\* stereo pairs as a DrillSpec may carry them, strengths from -0.5 to 1.5,
\* and symbols inside and outside the pair
PanInputs ==
    [sp : {<<>>, <<"H", "5">>, <<"5", "H">>, <<"h", "5">>, <<"5", "5">>},
     pan_strength : {Frac(n, 4) : n \in (0 - 2)..6},
     symbol : {"H", "h", "5", "E", "e", "#"}]

CallPanForSymbol ==
    /\ call.fn = "_pan_for_symbol"
    /\ ~call.done
    /\ call' = [call EXCEPT !.done = TRUE,
                            !.result = _pan_for_symbol(call.args.sp, call.args.pan_strength,
                                                       call.args.symbol)]
    /\ NoSession

(* MorseSynth.string_audio (vbz_synth.py), jitter off: the list of buffers  *)
(* it concatenates.  A buffer is kept as its kind, the index of the         *)
(* character it was made for, and its length in frames.                     *)

Chunk(kind, at, frames) == [kind |-> kind, at |-> at, frames |-> frames]

\* the loop with the gap appended before a space as well
RECURSIVE StringChunksGapBeforeSpace(_, _, _)
StringChunksGapBeforeSpace(text, i, wpm) ==
    IF i > Len(text) THEN <<>>
    ELSE (IF text[i] = " " THEN <<Chunk("word_gap", i, DitFrames(7, wpm))>>
          ELSE IF Upper(text[i]) \notin DOMAIN MORSE_MAP THEN <<>>
          ELSE <<Chunk("symbol", i, SymbolAudioFrames(text[i], wpm))>>
               \o (IF i # Len(text)
                   THEN <<Chunk("char_gap", i, DitFrames(3, wpm))>> ELSE <<>>))
         \o StringChunksGapBeforeSpace(text, i + 1, wpm)

\* lines 157-165: for i, ch in enumerate(text)
RECURSIVE StringChunks(_, _, _)
StringChunks(text, i, wpm) ==
    IF i > Len(text) THEN <<>>
    ELSE (IF text[i] = " " THEN <<Chunk("word_gap", i, DitFrames(7, wpm))>>
          ELSE IF Upper(text[i]) \notin DOMAIN MORSE_MAP THEN <<>>
          ELSE <<Chunk("symbol", i, SymbolAudioFrames(text[i], wpm))>>
               \o (IF i # Len(text) /\ text[i + 1] # " "
                   THEN <<Chunk("char_gap", i, DitFrames(3, wpm))>> ELSE <<>>))
         \o StringChunks(text, i + 1, wpm)

\* the same without the default buffer
StringAudioNoDefault(text, wpm) == StringChunks(text, 1, wpm)

\* lines 151-168: the default silence when nothing was appended
string_audio(text, wpm) ==
    LET chunks == StringChunks(text, 1, wpm)
    IN IF chunks = <<>> THEN <<Chunk("default", 0, DefaultSilenceFrames)>> ELSE chunks

\* np.concatenate(chunks, axis=0): the length of the buffer returned
RECURSIVE BufferFrames(_)
BufferFrames(chunks) ==
    IF chunks = <<>> THEN 0 ELSE Head(chunks).frames + BufferFrames(Tail(chunks))

MaxTextLen == 4

\* texts of supported characters in both cases, spaces and an unsupported one
TextInputs ==
    [text : SeqsUpTo({"h", "5", "E", " ", "#"}, MaxTextLen), wpm : {12, 25}]

\* string_audio, and the number of chunks _enqueue_audio cuts the buffer into
CallStringAudio ==
    /\ call.fn = "string_audio"
    /\ ~call.done
    /\ LET chunks == string_audio(call.args.text, call.args.wpm)
       IN call' = [call EXCEPT !.done = TRUE,
                               !.result = [chunks |-> chunks,
                                           frames |-> BufferFrames(chunks),
                                           enqueue |-> NumChunks(BufferFrames(chunks))]]
    /\ NoSession

(* levenshtein (vbz_utils.py), called on its own *)

MaxLevLen == 4

LevInputs == [a : SeqsUpTo({"A", "B"}, MaxLevLen), b : SeqsUpTo({"A", "B"}, MaxLevLen)]

CallLevenshtein ==
    /\ call.fn = "levenshtein"
    /\ ~call.done
    /\ call' = [call EXCEPT !.done = TRUE,
                            !.result = levenshtein(call.args.a, call.args.b)]
    /\ NoSession

(* SessionRunner._make_synth (vbz_session.py) and its five call sites.  An *)
(* optional argument is <<>> for None and <<v>> for the value v.            *)

\* the same with spec.swap_channels ignored
MakeSynthNoSwap(sp, wpm, stereo) ==
    LET allow_stereo == sp.mode \in {"reanchor", "contrast"}
        want_stereo == IF stereo # <<>> THEN stereo[1] ELSE sp.stereo
    IN [wpm |-> IF wpm = <<>> THEN sp.wpm ELSE wpm[1],
        stereo_pair |-> IF allow_stereo /\ want_stereo THEN sp.pair ELSE <<>>,
        pan_strength |-> sp.pan_strength]

\* lines 88-112: the SynthConfig built (speed, stereo pair, pan strength)
_make_synth(sp, wpm, stereo) ==
    LET allow_stereo == sp.mode \in {"reanchor", "contrast"}
        want_stereo == IF stereo # <<>> THEN stereo[1] ELSE sp.stereo
        pair == IF sp.swap_channels THEN <<sp.pair[2], sp.pair[1]>> ELSE sp.pair
    IN [wpm |-> IF wpm = <<>> THEN sp.wpm ELSE wpm[1],
        stereo_pair |-> IF allow_stereo /\ want_stereo THEN pair ELSE <<>>,
        pan_strength |-> sp.pan_strength]

\* lines 228, 234, 248, 271, 295: the synthesizer of each kind of block
SynthSites == {"reanchor_low", "reanchor_high", "contrast", "context", "overspeed"}

SiteMode(site) ==
    IF site \in {"reanchor_low", "reanchor_high"} THEN "reanchor" ELSE site

SynthAt(site, sp) ==
    IF site = "reanchor_low" THEN _make_synth(sp, <<sp.low_wpm>>, <<>>)
    ELSE IF site = "reanchor_high" THEN _make_synth(sp, <<sp.high_wpm>>, <<>>)
    ELSE IF site = "contrast" THEN _make_synth(sp, <<>>, <<>>)
    ELSE IF site = "context" THEN _make_synth(sp, <<>>, <<FALSE>>)
    ELSE _make_synth(sp, <<sp.overspeed_wpm>>, <<FALSE>>)

\* the symbols whose panning is looked at: the pair as typed and a third one
PanSymbols == {"H", "h", "5", "E"}

PansOf(cfg) == [c \in PanSymbols |-> _pan_for_symbol(cfg.stereo_pair, cfg.pan_strength, c)]

\* the DrillSpec fields _make_synth reads, for each call site
SynthInputs ==
    {[site |-> site,
      spec |-> [mode |-> SiteMode(site), pair |-> pair, wpm |-> 25, low_wpm |-> 12,
                high_wpm |-> 36, overspeed_wpm |-> 30, stereo |-> st,
                swap_channels |-> sw, pan_strength |-> Frac(n, 2)]] :
        site \in SynthSites, pair \in {<<"H", "5">>, <<"h", "5">>},
        st \in BOOLEAN, sw \in BOOLEAN, n \in 0..3}

CallMakeSynth ==
    /\ call.fn = "_make_synth"
    /\ ~call.done
    /\ LET cfg == SynthAt(call.args.site, call.args.spec)
       IN call' = [call EXCEPT !.done = TRUE,
                               !.result = [cfg |-> cfg, pan |-> PansOf(cfg)]]
    /\ NoSession

\* the calls that are made
Calls ==
    {Pending("validate_pair", text) : text \in PairInputs}
    \cup {Pending("validate_inputs", w) : w \in TabInputs}
    \cup {Pending("dit_seconds", wpm) : wpm \in WpmValues}
    \cup {[Pending("_jitter", a) EXCEPT !.result = [values |-> <<>>, rng |-> a.rng]] :
             a \in JitterInputs}
    \cup {Pending("_symbol_to_units", a) : a \in SymbolInputs}
    \cup {Pending("_pan_for_symbol", a) : a \in PanInputs}
    \cup {Pending("string_audio", a) : a \in TextInputs}
    \cup {Pending("levenshtein", a) : a \in LevInputs}
    \cup {Pending("_make_synth", a) : a \in SynthInputs}

CalcInit ==
    /\ spec \in DrillSpecs
    /\ spec.mode = "contrast"
    /\ StartState
    /\ runtime
    /\ call \in Calls

CalcNext ==
    \/ CallValidatePair
    \/ CallValidateInputs
    \/ CallDitSeconds
    \/ CallJitter
    \/ CallSymbolToUnits
    \/ CallPanForSymbol
    \/ CallStringAudio
    \/ CallLevenshtein
    \/ CallMakeSynth

CalcSpec == CalcInit /\ [][CalcNext]_vars

----------------------------------------------------------------------------
(* Vocabulary of the properties *)

IsPrefix(s, t) == Len(s) <= Len(t) /\ SubSeq(t, 1, Len(s)) = s

Count(seq, x) == Cardinality({k \in 1..Len(seq) : seq[k] = x})

\* the info column of the rows of one event kind, in log order
RECURSIVE InfosFrom(_, _, _)
InfosFrom(rows, k, event) ==
    IF k > Len(rows) THEN <<>>
    ELSE (IF rows[k].event = event THEN <<rows[k].info>> ELSE <<>>)
         \o InfosFrom(rows, k + 1, event)

Infos(event) == InfosFrom(log, 2, event)

RunnerDone == pc_r = "done"
AudioDone == pc_a = "a_done" \/ (pc_a = "none" /\ pc_r = "done")
StopCalled == hist.stops >= 1

\* the chunks of buffers 1..n, in order
RECURSIVE AllChunks(_)
AllChunks(n) == IF n = 0 THEN <<>> ELSE AllChunks(n - 1) \o ChunksOf(n, gen[n])

----------------------------------------------------------------------------
(* Claims *)

\* C1: no SESSION_COMPLETE callback is delivered after stop() has set the
\* stop flag: every SESSION_COMPLETE in the callback sequence was delivered
\* before the first call of stop() set the flag.
C1_NoCompleteAfterStop ==
    \A k \in 1..Len(ui) :
        ui[k] = "SESSION_COMPLETE" => (~StopCalled \/ k <= hist.snap.ui)

\* the rows a session of four passes over six lines leaves: header and 24 rows
FullLogLen == 1 + CONTRAST_PASSES * CATALOG_LINES

\* C2: a contrast or context session on which stop() is never called and whose
\* delivery thread keeps dequeuing without a render error eventually ends
\* with all 24 lines logged, completed_naturally true and SESSION_COMPLETE
\* delivered, and SESSION_COMPLETE is never delivered twice.
C2_QuietSessionCompletes ==
    /\ [](Count(ui, "SESSION_COMPLETE") <= 1)
    /\ <>[](runtime => /\ pc_r = "done"
                       /\ completed_naturally
                       /\ Len(log) = FullLogLen
                       /\ Count(ui, "SESSION_COMPLETE") = 1)

\* a context session has ended after its 24 lines and has notified once
C2_Witness ==
    /\ spec.mode = "context"
    /\ pc_r = "done"
    /\ completed_naturally
    /\ Len(sent_lines) = CONTRAST_PASSES * CATALOG_LINES
    /\ Count(ui, "SESSION_COMPLETE") = 1
    /\ ~StopCalled

\* the 24 lines a contrast session plays: four passes over the catalog
ContrastExpected ==
    [k \in 1..(CONTRAST_PASSES * CATALOG_LINES) |->
        build_pair_sequences(spec.pair, CATALOG_LINES)[((k - 1) % CATALOG_LINES) + 1]]

\* C3: in a contrast session the `line` rows are, in order, a prefix of the
\* 24-row sequence whose k-th row carries catalog line ((k-1) mod 6); when the
\* mode loop has completed naturally the log holds the header and exactly
\* those 24 rows.
C3_ContrastLineRows ==
    spec.mode = "contrast" =>
        /\ IsPrefix(Infos("line"), ContrastExpected)
        /\ Len(log) > 0 => (log[1] = HeaderRow /\ Len(Infos("line")) = Len(log) - 1)
        /\ completed_naturally => Infos("line") = ContrastExpected

C3_Witness ==
    /\ spec.mode = "contrast"
    /\ completed_naturally
    /\ Len(Infos("line")) = 24
    /\ pc_r = "done"

\* C4: the chunks written to the output stream are a prefix of the chunks the
\* orchestrator put into the queue: nothing is rendered twice or out of
\* order, whatever stop() puts into the same queue.
C4_WrittenPrefixOfEnqueued == IsPrefix(written, enqueued)

\* a sentinel put by stop() sits in the queue in front of an audio chunk,
\* and chunks have been rendered
C4_Witness ==
    /\ StopCalled
    /\ Len(written) >= 2
    /\ \E j \in 1..Len(q_frames) : \E k \in 1..Len(q_frames) :
          j < k /\ q_frames[j] = None /\ q_frames[k] # None

\* C5: once stop() has set the flag, the orchestrator and the delivery thread
\* both end, whatever the queue holds and wherever the two threads stand.
C5_StopTerminatesBoth == stop_flag ~> (RunnerDone /\ AudioDone)

\* both threads have ended after a stop() that found the queue full
C5_Witness ==
    /\ StopCalled
    /\ pc_c = "ready"
    /\ RunnerDone
    /\ pc_a = "a_done"
    /\ Len(q_frames) = AUDIO_QUEUE_MAX_SIZE
    /\ \A k \in 1..Len(q_frames) : q_frames[k] # None

\* C6: after stop() has set the flag the delivery thread dequeues at most
\* once more and renders at most one further chunk, and the loop test it
\* next runs ends the thread.
C6_AtMostOneMoreFrame ==
    /\ [](StopCalled => /\ hist.deq <= hist.snap.deq + 1
                        /\ Len(written) <= hist.snap.written + 1)
    /\ [][(pc_a = "a_check" /\ stop_flag /\ pc_a' # pc_a) => pc_a' = "a_done"]_vars

\* the delivery thread has dequeued and rendered a chunk after the flag was
\* set, and has ended with chunks left in the queue
C6_Witness ==
    /\ StopCalled
    /\ pc_a = "a_done"
    /\ hist.deq = hist.snap.deq + 1
    /\ Len(written) = hist.snap.written + 1
    /\ \E k \in 1..Len(q_frames) : q_frames[k] # None

\* Chunk k is not the last chunk of its buffer, nothing of that buffer
\* follows it, and the call of _enqueue_audio for that buffer has returned.
Abandoned(k) ==
    /\ enqueued[k].hi < gen[enqueued[k].buf]
    /\ enqueued[k].buf # audio.buf
    /\ (k = Len(enqueued) \/ enqueued[k + 1].buf # enqueued[k].buf)

\* buffers whose call of _enqueue_audio returned before the first chunk
Unstarted ==
    {b \in 1..Len(gen) : b # audio.buf} \ {enqueued[k].buf : k \in 1..Len(enqueued)}

C8_RepeatedStopChangesNothing ==
    /\ [](StopCalled => stop_flag)
    /\ [](pc_c = "stop_put" => ENABLED (StopPut \/ StopPutFull))
    /\ [](StopCalled =>
            \A k \in 1..Len(ui) :
                (ui[k] = "SESSION_COMPLETE" /\ k > hist.snap.ui) => hist.snap.notifying)
    /\ [][(hist.stops >= 1 /\ pc_c' # pc_c)
            => /\ stop_flag'
               /\ UNCHANGED <<log, sent_lines, ui, completed_naturally, pc_r, loc>>]_vars

\* a second call of stop() has returned while the orchestrator is running
C8_Witness ==
    /\ hist.stops = MaxStops
    /\ pc_c = "ready"
    /\ pc_r \notin {"idle", "done"}
    /\ Count(q_frames, None) >= 2

\* C9, as claimed: whenever the mode loop has been left, the orchestrator has
\* placed its sentinel in the queue.
C9_SentinelAlwaysPlaced ==
    (pc_r = "done" /\ completed_naturally /\ ~StopCalled) => hist.run_sentinel

\* what the orchestrator has enqueued when no chunk was skipped or repeated
ExpectedEnqueued ==
    IF audio.buf = 0 THEN AllChunks(Len(gen))
    ELSE AllChunks(audio.buf - 1)
         \o SubSeq(ChunksOf(audio.buf, audio.len), 1, audio.i \div AUDIO_CHUNK_SIZE)

\* C10: the queue never holds more than 8 entries; a put that times out on
\* a full queue leaves the queue and the chunk at hand unchanged and leads
\* back to the stop check; while no stop is requested the chunks enqueued are
\* exactly the chunks of the buffers so far, each once and in order.
C10_BoundedQueueNoSkip ==
    /\ [](Len(q_frames) <= AUDIO_QUEUE_MAX_SIZE)
    /\ [](~stop_flag => enqueued = ExpectedEnqueued)
    /\ [][(pc_r = "enq_put" /\ Len(q_frames) = AUDIO_QUEUE_MAX_SIZE /\ pc_r' # pc_r)
            => (q_frames' = q_frames /\ audio' = audio /\ pc_r' = "enq_check")]_vars

\* the queue is full, the orchestrator is about to retry and no stop is asked
C10_Witness ==
    /\ Len(q_frames) = AUDIO_QUEUE_MAX_SIZE
    /\ pc_r = "enq_check"
    /\ audio.i > 0
    /\ ~stop_flag

\* the event kind and the speed of the line-playing modes with ground truth
LineKind == IF spec.mode = "context" THEN "ctx" ELSE "overspeed_line"
LineWpm == IF spec.mode = "context" THEN spec.wpm ELSE spec.overspeed_wpm

\* the line a buffer belongs to: each line hands two buffers to
\* _enqueue_audio, its audio and the silence that follows it
LineOf(buf) == (buf + 1) \div 2

\* C11: in context and overspeed sessions the `ctx`/`overspeed_line` row
\* infos are a prefix of sent_lines, which is at most one entry ahead of
\* them; every buffer synthesized, and every chunk in the queue or rendered,
\* belongs to a line already in sent_lines; and the audio of a line is the
\* audio of the newest entry of sent_lines.
C11_SentBeforeLoggedAndQueued ==
    /\ [](spec.mode \in {"context", "overspeed"} =>
            /\ IsPrefix(Infos(LineKind), sent_lines)
            /\ Len(sent_lines) <= Len(Infos(LineKind)) + 1
            /\ LineOf(Len(gen)) <= Len(sent_lines)
            /\ \A k \in 1..Len(q_frames) :
                  q_frames[k] # None => LineOf(q_frames[k].buf) <= Len(sent_lines)
            /\ \A k \in 1..Len(written) : LineOf(written[k].buf) <= Len(sent_lines))
    /\ [][(spec.mode \in {"context", "overspeed"} /\ gen' # gen /\ Len(gen') % 2 = 1)
            => /\ LineOf(Len(gen')) = Len(sent_lines)
               /\ gen'[Len(gen')] =
                    StringAudioFrames(sent_lines[Len(sent_lines)], LineWpm)]_vars

\* a context line is in sent_lines and not yet logged while chunks of
\* earlier lines are in the queue
C11_Witness ==
    /\ spec.mode = "context"
    /\ pc_r = "cx_log"
    /\ Len(sent_lines) = Len(Infos("ctx")) + 1
    /\ Len(sent_lines) >= 2
    /\ \E k \in 1..Len(q_frames) : q_frames[k] # None
    /\ Len(written) >= 1

\* the positions inside the two with-blocks of _sent_lines_lock
RunnerInBlock == pc_r \in {"cx_locked", "cx_unlock", "ov_locked", "ov_unlock"}
AppInBlock == pc_c \in {"snap_read", "snap_unlock"}

\* C12: the orchestrator and the controlling thread are never inside their
\* with-blocks at the same time; each is inside exactly while it holds the
\* lock; sent_lines is appended to and copied only by the holder; and the
\* holder can always go on to release the lock.
C12_SentLinesSerialized ==
    /\ [](~(RunnerInBlock /\ AppInBlock))
    /\ []((lock = "runner" <=> RunnerInBlock) /\ (lock = "controller" <=> AppInBlock))
    /\ [][(sent_lines' # sent_lines => lock = "runner")
          /\ (sent_copy' # sent_copy => lock = "controller")]_vars
    /\ [](lock = "runner" => ENABLED (RunnerAppendLocked \/ RunnerRelease))
    /\ [](lock = "controller" => ENABLED (AppCopy \/ AppRelease))

\* the orchestrator waits for the lock while the controlling thread, holding
\* it, has copied the lines played so far
C12_Witness ==
    /\ lock = "controller"
    /\ pc_c = "snap_unlock"
    /\ pc_r \in {"cx_append", "ov_append"}
    /\ Len(sent_copy) >= 2

\* the log row a buffer belongs to: in reanchor every buffer is a block with a
\* row of its own; elsewhere a line and the silence after it share the line's row
RowOf(buf) == IF spec.mode = "reanchor" THEN buf ELSE LineOf(buf)

\* the buffer a row's text was synthesized into
BufferOfRow(k) == IF spec.mode = "reanchor" THEN k ELSE 2 * k - 1

\* the audio length of the text a row names
RowFrames(row) ==
    IF row.event = "block"
    THEN StringAudioFrames(Pattern(spec, row.info[3] \div 2), row.info[1])
    ELSE StringAudioFrames(row.info, IF row.event = "overspeed_line"
                                     THEN spec.overspeed_wpm ELSE spec.wpm)

\* C13: whenever a chunk is put into the queue, the row of the block or line the
\* chunk belongs to (for the silence, of the line before it) is written already
\* and is the last row of the log, and the chunk's buffer is the audio of the
\* text that row names.
C13_LoggedBeforeEnqueued ==
    [][enqueued' # enqueued =>
         LET c == enqueued'[Len(enqueued')]
             k == RowOf(c.buf)
         IN /\ log' = log
            /\ Len(log) = k + 1
            /\ log[1] = HeaderRow
            /\ BufferOfRow(k) <= c.buf
            /\ gen[BufferOfRow(k)] = RowFrames(log[Len(log)])
            /\ c.hi <= gen[c.buf]]_vars

\* a chunk of the fourth buffer (the second high block, or the silence after
\* the second line) has been queued behind rows of the earlier buffers
C13_Witness ==
    /\ Len(log) = RowOf(4) + 1
    /\ Len(enqueued) > 0
    /\ enqueued[Len(enqueued)].buf = 4

\* the rows of the two blocks of one iteration
LowRow ==
    EventRow(spec, "block",
             BlockInfo(spec.low_wpm,
                       ReanchorReps(spec.timing_balance, spec.low_wpm, spec.high_wpm).low))
HighRow ==
    EventRow(spec, "block",
             BlockInfo(spec.high_wpm,
                       ReanchorReps(spec.timing_balance, spec.low_wpm, spec.high_wpm).high))

\* the orchestrator has left its mode loop
LoopLeft == pc_r \in {"put_none", "check_complete", "notify", "done"}

\* C14: in reanchor the rows after the header are low, high, low, high, ...,
\* so there are as many low rows as high rows or one more; and when the check
\* between the two blocks finds the flag set, the loop returns False at once,
\* and no high row is written and no high block synthesized or queued then or
\* later.
C14_BlocksAlternateAndMidCheckReturns ==
    /\ [](spec.mode = "reanchor" =>
            /\ LowRow # HighRow
            /\ \A k \in 2..Len(log) : log[k] = IF k % 2 = 0 THEN LowRow ELSE HighRow
            /\ Count(log, LowRow) - Count(log, HighRow) \in {0, 1})
    /\ [][(pc_r = "ra_mid" /\ stop_flag /\ pc_r' # pc_r) =>
            /\ pc_r' = "put_none"
            /\ completed_naturally' = FALSE
            /\ log' = log /\ gen' = gen /\ enqueued' = enqueued]_vars
    /\ [][LoopLeft => (LoopLeft' /\ log' = log /\ gen' = gen /\ enqueued' = enqueued)]_vars

\* the loop was left between the second low block and its high block
C14_Witness ==
    /\ spec.mode = "reanchor"
    /\ stop_flag
    /\ pc_r = "put_none"
    /\ loc.ret = "ra_mid"
    /\ log = <<HeaderRow, LowRow, HighRow, LowRow>>
    /\ Len(gen) = 3

\* C15: the header is written once and is the first row; it is written while
\* the delivery thread does not exist yet; the delivery thread is started on
\* a log that holds the header alone, before any buffer is synthesized or any
\* chunk queued.
C15_StartUpOrder ==
    /\ [](/\ Count(log, HeaderRow) <= 1
          /\ (log # <<>> => log[1] = HeaderRow)
          /\ ((runtime /\ pc_r \notin {"idle", "begin"}) => Count(log, HeaderRow) = 1)
          /\ (pc_a # "none" => log # <<>>)
          /\ ((Len(log) >= 2 \/ gen # <<>> \/ enqueued # <<>>) => pc_a # "none"))
    /\ [][(log = <<>> /\ log' # <<>>) =>
             (log' = <<HeaderRow>> /\ pc_a = "none" /\ pc_a' = "none")]_vars
    /\ [][(pc_a = "none" /\ pc_a' # "none") =>
             (log = <<HeaderRow>> /\ log' = log /\ gen = <<>> /\ enqueued = <<>>
              /\ pc_r = "start_audio" /\ pc_r' = "dispatch")]_vars

\* header, delivery thread, then a second event row and queued chunks
C15_Witness ==
    /\ pc_a # "none"
    /\ Len(log) >= 3
    /\ log[1] = HeaderRow
    /\ Len(enqueued) >= 2

\* the event kind of each mode's rows
KindOf == [m \in Modes |-> CASE m = "reanchor" -> "block"
                             [] m = "contrast" -> "line"
                             [] m = "context" -> "ctx"
                             [] m = "overspeed" -> "overspeed_line"]

\* the positions inside each mode's loop
LoopPcs == [m \in Modes |->
              CASE m = "reanchor" -> {"ra_check", "ra_low", "ra_mid", "ra_high", "ra_ret"}
                [] m = "contrast" -> {"rc_check", "rc_log", "rc_gap", "rc_pass"}
                [] m = "context" -> {"cx_check", "cx_append", "cx_log", "cx_gap", "cx_pass",
                                     "cx_locked", "cx_unlock"}
                [] m = "overspeed" -> {"ov_check", "ov_append", "ov_log", "ov_gap", "ov_ret",
                                       "ov_locked", "ov_unlock"}]

\* C16: the orchestrator is never inside the loop of a mode other than
\* DrillSpec.mode, and every row after the header has that mode's event kind,
\* DrillSpec.mode in its mode column and the upper-cased pair in its pair
\* column.
C16_ModeFixesEventKind ==
    /\ \A m \in Modes \ {spec.mode} : pc_r \notin LoopPcs[m] /\ loc.ret \notin LoopPcs[m]
    /\ \A k \in 2..Len(log) :
          /\ log[k].event = KindOf[spec.mode]
          /\ log[k].mode = spec.mode
          /\ log[k].pair = <<Upper(spec.pair[1]), Upper(spec.pair[2])>>
          /\ (spec.pair = <<"h", "5">> => log[k].pair = <<"H", "5">>)

\* three event rows of the session's mode, the pair typed in lower case
C16_Witness ==
    /\ Len(log) >= 4
    /\ spec.pair[1] # Upper(spec.pair[1])
    /\ log[4].event = KindOf[spec.mode]
    /\ pc_r \in LoopPcs[spec.mode]

\* C17: in a reanchor or contrast session sent_lines is empty in every state;
\* in every mode a step that changes sent_lines appends one entry and leaves
\* the entries before it as they were.
C17_SentLinesOnlyGrows ==
    /\ [](spec.mode \in {"reanchor", "contrast"} => sent_lines = <<>>)
    /\ [][sent_lines' # sent_lines =>
            /\ spec.mode \in {"context", "overspeed"}
            /\ Len(sent_lines') = Len(sent_lines) + 1
            /\ IsPrefix(sent_lines, sent_lines')]_vars

\* an overspeed session that has gone once round the catalog and begun again
C17_Witness ==
    /\ spec.mode = "overspeed"
    /\ Len(sent_lines) = CATALOG_LINES + 1
    /\ sent_lines[CATALOG_LINES + 1] = sent_lines[1]

\* a reanchor session that has played both blocks with sent_lines still empty
C17_WitnessNoLines ==
    /\ spec.mode = "reanchor"
    /\ Len(log) >= 3
    /\ sent_lines = <<>>

\* the mode loop returns on this step
LoopReturns == pc_r \in LoopPcs[spec.mode] /\ pc_r' = "put_none"

\* C18 (the loops of a fixed number of passes): contrast and context return
\* True exactly when the check after the fourth pass finds the flag clear, all
\* lines of all passes having been logged.
C18_PassLoopsReturn ==
    [][(LoopReturns /\ spec.mode \in {"contrast", "context"}) =>
         (completed_naturally' <=>
             /\ ~stop_flag
             /\ loc'.pass = CONTRAST_PASSES
             /\ Len(log) = 1 + CONTRAST_PASSES * CATALOG_LINES)]_vars

\* C18: reanchor and overspeed return True only if the deadline has passed and
\* the loop test that ended the loop read the stop flag as clear; contrast and
\* context return True only after four full passes with the flag clear.  A
\* loop that ends because it read the flag as set returns False.
C18_TrueOnlyIfNotStopped ==
    /\ C18_PassLoopsReturn
    /\ [][(LoopReturns /\ spec.mode \in {"reanchor", "overspeed"}) =>
            (completed_naturally' <=> (deadline_passed /\ ~loc.saw_stop))]_vars

\* the catalog line the k-th overspeed line must be
CatalogLine(k) == build_pair_sequences(spec.pair, CATALOG_LINES)[((k - 1) % CATALOG_LINES) + 1]

\* C19: in overspeed the k-th overspeed_line row and the k-th entry of
\* sent_lines are catalog line (k-1) mod 6, for every k; a loop test that
\* finds the deadline not passed and the flag clear goes on to another line,
\* and the loop is left only when the flag is set or the deadline has passed.
C19_OverspeedRoundRobin ==
    /\ [](spec.mode = "overspeed" =>
            /\ \A k \in 1..Len(sent_lines) : sent_lines[k] = CatalogLine(k)
            /\ \A k \in 1..(Len(log) - 1) :
                  log[k + 1] = EventRow(spec, "overspeed_line", CatalogLine(k)))
    /\ [][(pc_r = "ov_check" /\ pc_r' # pc_r) =>
            /\ (~stop_flag /\ ~deadline_passed) => pc_r' = "ov_append"
            /\ (stop_flag \/ deadline_passed) => pc_r' = "ov_ret"]_vars
    /\ [][(pc_r \in LoopPcs["overspeed"] /\ LoopLeft') =>
            (pc_r = "ov_ret" /\ (loc.saw_stop \/ deadline_passed))]_vars

\* the seventh line, the first of the catalog again, is logged and the loop
\* test lets an eighth begin
C19_Witness ==
    /\ spec.mode = "overspeed"
    /\ Len(sent_lines) = CATALOG_LINES + 1
    /\ Len(log) = CATALOG_LINES + 2
    /\ log[CATALOG_LINES + 2].info = build_pair_sequences(spec.pair, CATALOG_LINES)[1]
    /\ build_pair_sequences(spec.pair, CATALOG_LINES)[1]
          # build_pair_sequences(spec.pair, CATALOG_LINES)[CATALOG_LINES]
    /\ ~stop_flag /\ ~deadline_passed

\* C20: without the runtime, run() sends one status message and returns; the
\* log stays unwritten, the delivery thread is never started, run() puts no
\* chunk and no sentinel into the queue, synthesizes nothing, sent_lines
\* stays empty and SESSION_COMPLETE is never emitted.
C20_FatalAbortHasNoOtherEffect ==
    ~runtime =>
        /\ pc_r \in {"idle", "begin", "done"}
        /\ ui = IF pc_r = "done" THEN <<"NumPy is not available">> ELSE <<>>
        /\ log = <<>>
        /\ pc_a = "none"
        /\ written = <<>>
        /\ enqueued = <<>> /\ gen = <<>> /\ audio = NoAudio
        /\ ~hist.run_sentinel
        /\ \A k \in 1..Len(q_frames) : q_frames[k] = None /\ StopCalled
        /\ sent_lines = <<>>
        /\ ~completed_naturally
        /\ loc = NoLocals

\* run() has returned from the abort
C20_Witness ==
    /\ ~runtime
    /\ pc_r = "done"
    /\ ui = <<"NumPy is not available">>

\* C21: the step on which a write to the output stream fails ends the
\* delivery thread and touches nothing of the orchestrator (its position, its
\* outcome, the stop flag, the log, the status sink); from then on the thread
\* stays ended, renders nothing (the failed chunk included) and dequeues
\* nothing.
C21_RenderErrorEndsDelivery ==
    /\ [](hist.render_error => pc_a = "a_done")
    /\ [][(~hist.render_error /\ hist'.render_error) =>
            /\ pc_a = "a_write" /\ pc_a' = "a_done"
            /\ written' = written /\ q_frames' = q_frames
            /\ (written = <<>> \/ written[Len(written)] # frame)
            /\ UNCHANGED <<stop_flag, pc_r, completed_naturally, loc, audio, log, ui,
                           sent_lines, enqueued, gen>>]_vars
    /\ [][hist.render_error =>
            /\ written' = written
            /\ hist'.deq = hist.deq
            /\ frame' = frame
            /\ IsPrefix(q_frames, q_frames')
            /\ (stop_flag' # stop_flag => pc_c' # pc_c)]_vars

\* after the failure the orchestrator has gone on and filled the queue, the
\* failed chunk having been neither rendered nor put back
C21_Witness ==
    /\ hist.render_error
    /\ ~stop_flag
    /\ Len(written) >= 1
    /\ QueueFull(q_frames)
    /\ pc_r = "enq_put"
    /\ \A k \in 1..Len(written) : written[k] # frame
    /\ \A k \in 1..Len(q_frames) : q_frames[k] # frame

IsMetrics(row) == row.ts = "metrics"

\* C22: the controlling thread appends its metrics rows only when the
\* orchestrator has returned, so that in the log no event row follows a
\* metrics row.
C22_MetricsAfterLastEventRow ==
    /\ [][(log' # log /\ pc_c = "score" /\ pc_c' = "stopped") => pc_r = "done"]_vars
    /\ [](\A k \in 1..(Len(log) - 1) : IsMetrics(log[k]) => IsMetrics(log[k + 1]))

\* the repetition counts have been computed
RepsComputed == spec.mode = "reanchor" /\ pc_r = "ra_check"

\* C23 (the lower bounds): both counts are at least 1.
C23_RepsAtLeastOne == RepsComputed => (loc.low_reps >= 1 /\ loc.high_reps >= 1)

\* C23: for every balance and every positive low and high speed the two
\* counts add up to 16 and each is at least 1.
C23_RepsSumTo16 ==
    RepsComputed =>
        /\ loc.low_reps + loc.high_reps = BASE_TOTAL_REPS
        /\ loc.low_reps >= 1
        /\ loc.high_reps >= 1

\* the scenario: low 14, high 32, equal time
Scenario == spec.low_wpm = 14 /\ spec.high_wpm = 32 /\ spec.timing_balance = 100

NearestToEqualTime(low_reps) ==
    LET p == BASE_TOTAL_REPS * spec.low_wpm
        q == spec.low_wpm + spec.high_wpm
    IN 2 * q * low_reps >= 2 * p - q /\ 2 * q * low_reps <= 2 * p + q

Names(text, a, b) == UpperText(RemoveSpaces(text), 1) = <<a, ",", b>>

Accepted == call.result.err = "None"

\* C26: validate_pair (and the same tests in App.start_session) accepts an
\* input exactly if it names two symbols of the supported alphabet that differ
\* from each other; every other input, identical members included, is
\* rejected with an error.
C26_AcceptsOnlyDistinctSupportedPairs ==
    Returned("validate_pair") =>
        (Accepted <=> \E a, b \in DOMAIN MORSE_MAP : a # b /\ Names(call.args, a, b))

\* what the tests do enforce: two supported symbols, equal or not, returned
\* upper-cased
C26_AcceptsOnlySupportedPairs ==
    Returned("validate_pair") =>
        /\ Accepted <=> \E a, b \in DOMAIN MORSE_MAP : Names(call.args, a, b)
        /\ Accepted => Names(call.args, call.result.pair[1][1], call.result.pair[2][1])
        /\ ~Accepted => call.result.pair = <<>>

\* the speeds a DrillSpec carries
SpecWpms(d) == {d.wpm, d.low_wpm, d.high_wpm, d.overspeed_wpm}

\* C27: on every tab validate_inputs returns an error whenever a speed that
\* get_drill_spec puts into the DrillSpec (wpm, low_wpm, high_wpm,
\* overspeed_wpm) is zero or negative, so no DrillSpec with such a speed is
\* built and the reanchor ratio never divides by high_wpm = 0.
C27_NonPositiveWpmRejected ==
    Returned("validate_inputs") =>
        /\ (\E v \in SpecWpms(get_drill_spec(call.args)) : v <= 0) => call.result.err # "None"
        /\ \A k \in 1..Len(call.result.drill) :
              \A v \in SpecWpms(call.result.drill[k]) : v > 0

\* what holds on the three tabs that test their speed
C27_TestedTabsRejectNonPositiveWpm ==
    Returned("validate_inputs") /\ call.args.tab # "reanchor" =>
        \A k \in 1..Len(call.result.drill) :
           \A v \in SpecWpms(call.result.drill[k]) : v > 0 /\ v <= 100

\* the dah and the two gaps are 3, 3 and 7 dits, and the dit is positive
Multiples(r) ==
    /\ r.dit.num > 0 /\ r.dit.den > 0
    /\ FracEq(r.dah, Times(3, r.dit))
    /\ FracEq(r.char_gap, Times(3, r.dit))
    /\ FracEq(r.word_gap, Times(7, r.dit))

\* C28: for every wpm > 0, fractional values below 1 included, dit_seconds
\* returns 1.2 / wpm, and for every wpm <= 0 it returns 1.2; the result is
\* positive, and the dah, the inter-character gap and the inter-word gap are
\* 3, 3 and 7 times it before jitter.
C28_DitIsTwelveTenthsOverWpm ==
    Returned("dit_seconds") =>
        /\ call.args.num > 0 =>
              FracEq(call.result.dit, Frac(12 * call.args.den, 10 * call.args.num))
        /\ call.args.num <= 0 => FracEq(call.result.dit, Frac(12, 10))
        /\ Multiples(call.result)

\* what the code does: 1.2 / wpm from 1 WPM upwards, 1.2 below
C28_DitClampedBelowOne ==
    Returned("dit_seconds") =>
        /\ call.args.num >= call.args.den =>
              FracEq(call.result.dit, Frac(12 * call.args.den, 10 * call.args.num))
        /\ call.args.num < call.args.den => FracEq(call.result.dit, Frac(12, 10))
        /\ Multiples(call.result)

\* d - d*j and d + d*j
JitterLow(a) == FracAdd(a.base, Times(0 - 1, FracMul(a.base, a.j)))
JitterHigh(a) == FracAdd(a.base, FracMul(a.base, a.j))

\* C29: for every base duration d >= 0, every jitter_pct j (also j > 1) and
\* every random draw, _jitter returns a duration that is not negative and
\* lies between max(0, d - d*j) and d + d*j; when j <= 0 every call returns
\* exactly d and takes nothing from the random stream.
C29_JitterNeverNegative ==
    call.fn = "_jitter" =>
        \A k \in 1..Len(call.result.values) :
           LET v == call.result.values[k]
           IN /\ v.num >= 0 /\ v.den > 0
              /\ call.args.j.num >= 0 =>
                    /\ FracLe(FracMax(Frac(0, 1), JitterLow(call.args)), v)
                    /\ FracLe(v, JitterHigh(call.args))
              /\ call.args.j.num <= 0 =>
                    /\ v = call.args.base
                    /\ call.result.rng = call.args.rng

\* jitter above 1 with the lowest and then the highest draw: the first
\* duration is floored to zero, the second is 2.5 times the base
C29_Witness ==
    /\ Returned("_jitter")
    /\ call.args.base = Frac(12, 10)
    /\ call.args.j = Frac(150, 100)
    /\ call.args.rng = <<Frac(0, JitterSteps), Frac(JitterSteps, JitterSteps)>>
    /\ FracEq(call.result.values[1], Frac(0, 1))
    /\ FracEq(call.result.values[2], Frac(30, 10))
    /\ call.result.rng = <<>>

\* A-Z and 0-9 in either letter case
SupportedSymbols == Alnum \cup {LowerAlpha[k] : k \in 1..Len(LowerAlpha)}

\* C30: for every symbol of the supported alphabet, in either letter case,
\* _symbol_to_units returns len(code) tones and len(code) - 1 silences,
\* alternating tone, silence, .., tone, with no silence at either end; with
\* jitter off a dot tone lasts 1 dit, a dash tone 3 dits and a silence 1 dit;
\* for an unsupported symbol it returns the empty sequence.
C30_UnitsAlternate ==
    Returned("_symbol_to_units") =>
        LET units == call.result
            a == call.args
            dit == dit_seconds(a.wpm)
        IN /\ a.symbol \in SupportedSymbols =>
                LET code == MORSE_MAP[Upper(a.symbol)]
                IN /\ Len(units) = 2 * Len(code) - 1
                   /\ \A k \in 1..Len(units) :
                         units[k].kind = (IF k % 2 = 1 THEN "tone" ELSE "sil")
                   /\ Cardinality({k \in 1..Len(units) : units[k].kind = "tone"}) = Len(code)
                   /\ Cardinality({k \in 1..Len(units) : units[k].kind = "sil"}) = Len(code) - 1
                   /\ a.j.num = 0 =>
                         /\ \A n \in 1..Len(code) :
                               FracEq(units[2 * n - 1].sec,
                                      Times(IF code[n] = "." THEN 1 ELSE 3, dit))
                         /\ \A n \in 1..(Len(code) - 1) : FracEq(units[2 * n].sec, dit)
           /\ a.symbol \notin SupportedSymbols => units = <<>>

\* a lower-case "a" at 25 WPM without jitter: dot, silence, dash of 48, 48
\* and 144 ms
C30_Witness ==
    /\ Returned("_symbol_to_units")
    /\ call.args.symbol = "a"
    /\ call.args.j = Frac(0, 1)
    /\ call.args.wpm = Frac(25, 1)
    /\ call.result = <<Unit("tone", Frac(48, 1000)), Unit("sil", Frac(48, 1000)),
                       Unit("tone", Frac(144, 1000))>>

\* pan_strength clamped to [0, 1], written out
Clamped(x) == IF x.num <= 0 THEN Frac(0, 1) ELSE IF x.num >= x.den THEN Frac(1, 1) ELSE x

\* what _pan_for_symbol is to return for a symbol, by the pair and strength
PanExpected(a, member) ==
    LET lean == FracAdd(Frac(1, 1), Times(0 - 1, Clamped(a.pan_strength)))
    IN IF member = 1 THEN <<Frac(1, 1), lean>> ELSE <<lean, Frac(1, 1)>>

Centered == <<Frac(1, 1), Frac(1, 1)>>

C31_UpperCasePairLeansApart ==
    Returned("_pan_for_symbol") /\ call.args.sp \in {<<>>, <<"H", "5">>, <<"5", "H">>} =>
        LET a == call.args
            sym == Upper(a.symbol)
        IN /\ a.sp = <<>> => call.result = Centered
           /\ a.sp # <<>> =>
                 /\ (sym # a.sp[1] /\ sym # a.sp[2]) => call.result = Centered
                 /\ sym = a.sp[1] => call.result = PanExpected(a, 1)
                 /\ sym = a.sp[2] => call.result = PanExpected(a, 2)

Supported(c) == c \in SupportedSymbols

\* the text holds no space and no supported character
OnlyUnsupported(text) == \A i \in 1..Len(text) : text[i] # " " /\ ~Supported(text[i])

\* C32: string_audio never returns an empty buffer: for the empty string and
\* for a string of unsupported characters only it returns the default silence
\* of 0.1 s, for every other text a buffer of at least one sample, so that
\* _enqueue_audio has at least one chunk to enqueue.
C32_BufferNeverEmpty ==
    Returned("string_audio") =>
        /\ call.result.frames >= 1
        /\ call.result.enqueue >= 1
        /\ call.result.frames = StringAudioFrames(call.args.text, call.args.wpm)
        /\ OnlyUnsupported(call.args.text) =>
              /\ call.result.frames = Max(1, SampleRate \div 10)
              /\ Len(call.result.chunks) = 1
        /\ ~OnlyUnsupported(call.args.text) =>
              \A k \in 1..Len(call.result.chunks) :
                 call.result.chunks[k].kind # "default" /\ call.result.chunks[k].frames >= 1

\* a text of one unsupported character gives the default silence: 48 frames
\* at 480 frames per second
C32_Witness ==
    /\ Returned("string_audio")
    /\ call.args.text = <<"#">>
    /\ call.result.chunks = <<Chunk("default", 0, DefaultSilenceFrames)>>
    /\ call.result.frames = SampleRate \div 10

\* the buffers made for the character at index i, in order
ChunksAt(chunks, i) == SelectSeq(chunks, LAMBDA c : c.at = i)

\* the buffers made for the characters strictly between i and j
ChunksBetween(chunks, i, j) == SelectSeq(chunks, LAMBDA c : c.at >= i /\ c.at < j)

\* C34: with jitter off string_audio gives, in text order, a silence of 7
\* dits for each space, nothing for each unsupported character, and for each
\* supported character its symbol audio followed by a gap of 3 dits unless
\* it is the last character of the text or the next character is a space; so
\* adjacent supported characters are 3 dits apart and supported characters
\* with only spaces between them a multiple of 7 dits.
C34_SegmentStructure ==
    Returned("string_audio") /\ ~OnlyUnsupported(call.args.text) =>
        LET text == call.args.text
            wpm == call.args.wpm
            chunks == call.result.chunks
            gap == <<"char_gap">>
            Kinds(i) == [k \in 1..Len(ChunksAt(chunks, i)) |-> ChunksAt(chunks, i)[k].kind]
        IN /\ \A k \in 1..(Len(chunks) - 1) : chunks[k].at <= chunks[k + 1].at
           /\ \A k \in 1..Len(chunks) : chunks[k].at \in 1..Len(text)
           /\ \A i \in 1..Len(text) :
                 /\ text[i] = " " => Kinds(i) = <<"word_gap">>
                 /\ (text[i] # " " /\ ~Supported(text[i])) => Kinds(i) = <<>>
                 /\ Supported(text[i]) =>
                       Kinds(i) = <<"symbol">>
                                  \o (IF i = Len(text) \/ text[i + 1] = " " THEN <<>> ELSE gap)
           /\ \A k \in 1..Len(chunks) :
                 chunks[k].frames =
                    (IF chunks[k].kind = "word_gap" THEN DitFrames(7, wpm)
                     ELSE IF chunks[k].kind = "char_gap" THEN DitFrames(3, wpm)
                     ELSE SymbolAudioFrames(text[chunks[k].at], wpm))
           /\ \A i \in 1..(Len(text) - 1) :
                 (Supported(text[i]) /\ Supported(text[i + 1])) =>
                    ChunksBetween(chunks, i, i + 1)
                       = <<Chunk("symbol", i, SymbolAudioFrames(text[i], wpm)),
                           Chunk("char_gap", i, DitFrames(3, wpm))>>
           /\ \A i, j \in 1..Len(text) :
                 (/\ i + 1 < j
                  /\ Supported(text[i]) /\ Supported(text[j])
                  /\ \A m \in (i + 1)..(j - 1) : text[m] = " ") =>
                    BufferFrames(ChunksBetween(chunks, i + 1, j)) = (j - i - 1) * DitFrames(7, wpm)

\* "h5 E" at 25 WPM: h, gap, 5, word gap, E
C34_Witness ==
    /\ Returned("string_audio")
    /\ call.args.text = <<"h", "5", " ", "E">>
    /\ call.args.wpm = 25
    /\ [k \in 1..Len(call.result.chunks) |-> call.result.chunks[k].kind]
          = <<"symbol", "char_gap", "symbol", "word_gap", "symbol">>
    /\ call.result.chunks[2].frames = DitFrames(3, 25)
    /\ call.result.chunks[4].frames = DitFrames(7, 25)

\* the edit distance by its recursive definition
RECURSIVE EditDistance(_, _)
EditDistance(a, b) ==
    IF a = <<>> THEN Len(b)
    ELSE IF b = <<>> THEN Len(a)
    ELSE IF Head(a) = Head(b) THEN EditDistance(Tail(a), Tail(b))
    ELSE 1 + Min(Min(EditDistance(Tail(a), b), EditDistance(a, Tail(b))),
                 EditDistance(Tail(a), Tail(b)))

\* C33: levenshtein(a, b) = levenshtein(b, a), levenshtein(x, x) = 0 and
\* levenshtein("", s) = levenshtein(s, "") = len(s); the result is the edit
\* distance of the two strings, whichever of them is the longer.
C33_LevenshteinIsEditDistance ==
    Returned("levenshtein") =>
        /\ call.result = levenshtein(call.args.b, call.args.a)
        /\ call.args.a = call.args.b => call.result = 0
        /\ call.args.a = <<>> => call.result = Len(call.args.b)
        /\ call.args.b = <<>> => call.result = Len(call.args.a)
        /\ call.result = EditDistance(call.args.a, call.args.b)

\* the shorter string first, so that the arguments are swapped: "AB" and
\* "BAAB" are two insertions apart
C33_Witness ==
    /\ Returned("levenshtein")
    /\ call.args.a = <<"A", "B">>
    /\ call.args.b = <<"B", "A", "A", "B">>
    /\ call.result = 2

\* the two gains of a pan exchanged
Exchanged(pan) == <<pan[2], pan[1]>>

\* the panning the same call gives with swap_channels off
UnswappedPans(a) == PansOf(SynthAt(a.site, [a.spec EXCEPT !.swap_channels = FALSE]))

\* C35: _make_synth configures a stereo pair only when the mode is reanchor or
\* contrast and stereo is wanted; in context and overspeed sessions the
\* SynthConfig has no stereo pair whatever stereo and pan_strength are, so
\* every symbol is panned (1, 1); with swap_channels set the configured pair
\* is the reversed pair, and the gains of every symbol are exchanged.
C35_StereoOnlyInReanchorAndContrast ==
    Returned("_make_synth") =>
        LET a == call.args
            cfg == call.result.cfg
            stereo_mode == a.spec.mode \in {"reanchor", "contrast"}
        IN /\ cfg.stereo_pair # <<>> <=> (stereo_mode /\ a.spec.stereo)
           /\ ~stereo_mode =>
                 /\ cfg.stereo_pair = <<>>
                 /\ \A c \in PanSymbols : call.result.pan[c] = Centered
           /\ (cfg.stereo_pair # <<>> /\ a.spec.swap_channels) =>
                 cfg.stereo_pair = <<a.spec.pair[2], a.spec.pair[1]>>
           /\ (cfg.stereo_pair # <<>> /\ ~a.spec.swap_channels) =>
                 cfg.stereo_pair = a.spec.pair
           /\ a.spec.swap_channels =>
                 \A c \in PanSymbols : call.result.pan[c] = Exchanged(UnswappedPans(a)[c])

\* a reanchor block in stereo at full strength with the channels swapped: the
\* pair is configured reversed, H plays on the right only and 5 on the left
C35_Witness ==
    /\ Returned("_make_synth")
    /\ call.args.site = "reanchor_high"
    /\ call.args.spec.pair = <<"H", "5">>
    /\ call.args.spec.stereo /\ call.args.spec.swap_channels
    /\ call.args.spec.pan_strength = Frac(1, 1)
    /\ call.result.cfg.stereo_pair = <<"5", "H">>
    /\ call.result.cfg.wpm = 36
    /\ call.result.pan["H"] = <<Frac(0, 1), Frac(1, 1)>>
    /\ call.result.pan["5"] = <<Frac(1, 1), Frac(0, 1)>>

\* the call of _enqueue_audio has returned
Chunked == pc_r = "returned"

\* C36: with no stop requested, _enqueue_audio of a buffer of L >= 1 frames
\* puts ceil(L / 4096) chunks into the queue, in buffer order, each of 4096
\* frames except a possibly shorter last one, which together are the buffer:
\* no frame is lost, duplicated or reordered, no chunk is empty and none is
\* the sentinel.
C36_ChunksCoverBuffer ==
    Chunked =>
        LET L == gen[1]
            n == Len(enqueued)
        IN /\ n >= 1
           /\ n * 4096 >= L /\ (n - 1) * 4096 < L
           /\ \A k \in 1..n : ~IsSentinel(enqueued[k]) /\ enqueued[k].buf = 1
           /\ enqueued[1].lo = 0
           /\ enqueued[n].hi = L
           /\ \A k \in 1..(n - 1) :
                 /\ enqueued[k].hi = enqueued[k + 1].lo
                 /\ enqueued[k].hi - enqueued[k].lo = 4096
           /\ enqueued[n].hi - enqueued[n].lo \in 1..4096
           /\ IsPrefix(written, enqueued)

\* a buffer one frame longer than two chunks: two full chunks and one of a
\* single frame
C36_Witness ==
    /\ Chunked
    /\ gen = <<2 * 4096 + 1>>
    /\ enqueued = << [buf |-> 1, lo |-> 0, hi |-> 4096],
                     [buf |-> 1, lo |-> 4096, hi |-> 8192],
                     [buf |-> 1, lo |-> 8192, hi |-> 8193] >>

\* C37: once stop() has set the flag, the orchestrator puts at most one more
\* audio chunk into the queue (the put under way), writes at most one more
\* log row and appends at most one more line to sent_lines.
C37_BoundedOverrun ==
    StopCalled =>
        /\ Len(enqueued) <= hist.snap.enq + 1
        /\ Len(log) <= hist.snap.log + 1
        /\ Len(sent_lines) <= hist.snap.sent + 1

\* a session stopped right after the loop's test of the flag: one line more
\* was appended and logged, and none of its audio was enqueued
C37_Witness ==
    /\ StopCalled
    /\ RunnerDone
    /\ Len(sent_lines) = hist.snap.sent + 1
    /\ Len(log) = hist.snap.log + 1
    /\ Len(enqueued) = hist.snap.enq
    /\ hist.snap.sent >= 1

\* a session stopped while a put was under way: that chunk still went in
C37_WitnessChunk ==
    /\ StopCalled
    /\ RunnerDone
    /\ Len(enqueued) = hist.snap.enq + 1
    /\ Len(log) = hist.snap.log

\* App.stop_session has scored the session
Scored == pc_c = "stopped"

\* C38: the copy of sent_lines that App.stop_session takes is the final
\* content of sent_lines: the orchestrator appends no line after the copy
\* was taken, so every line logged or enqueued is in the ground truth scored.
C38_SnapshotIsFinal ==
    /\ (Scored /\ RunnerDone) => sent_copy = sent_lines
    /\ pc_c # "ready" => Len(sent_lines) = Len(sent_copy)

\* what does hold: the copy is a prefix of the final content
C38_SnapshotIsPrefix ==
    pc_c # "ready" => IsPrefix(sent_copy, sent_lines)


\* The delivery thread has ended on a failed write while the orchestrator is
\* still inside run().
DeliveryLost == hist.render_error /\ pc_a = "a_done" /\ ~RunnerDone

\* C39: once the delivery thread has ended on a rendering error, the
\* orchestrator eventually terminates, or stop() is called: in a behaviour
\* without stop() the orchestrator does not wait forever on the full queue.
C39_OrchestratorOutlivesDelivery == DeliveryLost ~> (RunnerDone \/ StopCalled)

\* The state the orchestrator cannot leave by itself: the delivery thread is
\* gone, the queue is full, the flag is clear and a chunk waits to be put.
C39_StuckOnFullQueue ==
    /\ DeliveryLost /\ ~stop_flag
    /\ pc_r = "enq_put" /\ QueueFull(q_frames)


\* self.runner of the App: the runner of the modelled session until line 258
\* clears it, then nothing, then the second runner.
RunnerRegistered == pc_c \in {"ready", "snap_done", "app_put", "score"}
StartAllowed == pc_c = "stopped"
SecondRunnerStarted == pc_c = "restarted"

\* the SessionRunner threads and the delivery threads alive together
LiveRunners == (IF RunnerDone THEN 0 ELSE 1) + (IF SecondRunnerStarted THEN 1 ELSE 0)
FirstDeliveryAlive == pc_a \notin {"none", "a_done"}

\* C40: at most one session is live: two SessionRunner threads are never
\* alive together, and whenever start_session would create a runner, or has
\* created the second one, the previous orchestrator and its delivery thread
\* have terminated.
C40_OneLiveSession ==
    /\ LiveRunners <= 1
    /\ (StartAllowed \/ SecondRunnerStarted) => (RunnerDone /\ ~FirstDeliveryAlive)

\* The second runner has been started while the first orchestrator and its
\* delivery thread are both still running.
C40_TwoSessionsLive == SecondRunnerStarted /\ ~RunnerDone /\ FirstDeliveryAlive

\* The part of C40 the guard of line 186 gives: no second runner is started
\* while the first is registered.
C40_NoStartWhileRegistered == [][RunnerRegistered => ~SecondRunnerStarted']_vars

====
